---- MODULE Spec2Model ----
(***************************************************************************)
(* Model of nuxt-bluesky-comments: the thread-processing logic of          *)
(* src/runtime/composables/blueskyComments.logic (processReplies).         *)
(*                                                                         *)
(* A raw reply node is a record.  A valid thread-view post is              *)
(*   [type |-> "threadViewPost",                                           *)
(*    post |-> [cid, author |-> [did], likeCount, replyCount, repostCount],*)
(*    replies |-> <<raw nodes>>]                                           *)
(* and a blocked / not-found placeholder is [type |-> "blockedPost"] or    *)
(* [type |-> "notFoundPost"].  The fields uri, handle, displayName,        *)
(* avatar, text and createdAt are copied verbatim by the code and decide   *)
(* nothing; they are left out of the records.  A count the API omits is    *)
(* read as 0 by the code (post.likeCount || 0), so the counts of a raw     *)
(* post are naturals.  A post whose replies field the API omits is never   *)
(* descended into (reply.replies && reply.replies.length > 0), like one    *)
(* with an empty array, so the replies of a raw post are a sequence; the   *)
(* replies argument of the top-level call may also be the value undefined, *)
(* written AbsentReplies.                                                  *)
(*                                                                         *)
(* A string of parseBlueskyUrl and uriToUrl is a sequence of tokens.  The  *)
(* tokens ":", "/", "?" and "#" are those characters; every other token is *)
(* a run of characters other than these four, so the character classes     *)
(* [^/]+ and [^/?#]+ of the two regular expressions read a token as a      *)
(* whole.  The empty string is the empty sequence.                         *)
(***************************************************************************)
EXTENDS Integers, Sequences, FiniteSets, TLC

VARIABLES
    replies,          \* the raw replies array handed to processReplies
    parentAuthorDid,  \* argument parentAuthorDid (Undefined when omitted)
    depth,            \* argument depth
    options,          \* argument options
    result,           \* the list the call returned
    pc,               \* "ready" before the call, "done" after it
    url,              \* the string handed to parseBlueskyUrl
    parsed,           \* what parseBlueskyUrl returned
    uri,              \* the string handed to uriToUrl
    handle,           \* the handle handed to uriToUrl (<<>> when omitted)
    webUrl,           \* what uriToUrl returned
    npc,              \* "idle", then "parsed" | "converted", then "reparsed"
    limit,            \* props.limit of BlueskyComments, after withDefaults
    hasIdentifier,    \* hasIdentifier.value: whether a uri or url prop is passed now
    usesComposable,   \* whether setup called useBlueskyComments
    showAll,          \* showAll.value
    comments,         \* comments.value, the top-level list
    loading,          \* loading.value
    error,            \* error.value (<<>> when null)
    nuxt,             \* nuxt.options handed to the module's setup
    resolverBase,     \* the directory createResolver resolves against
    componentsDirs,   \* the calls of addComponentsDir
    imports,          \* the calls of addImports
    setupResult,      \* "none", then "resolved" or what setup threw
    locator,          \* uriOrUrl handed to useBlueskyComments
    fetchOptions,     \* options handed to useBlueskyComments
    post,             \* post.value (<<>> when null)
    stats,            \* stats.value
    postUrl,          \* postUrl.value
    runs,             \* the calls of fetchComments, in the order they started
    cachedModule,     \* cachedModule of the loader (<<>> when null)
    agentInstance,    \* agentInstance (<<>> when null)
    agentsConstructed,\* how many times new AtpAgent(...) has run
    importsStarted,   \* how many times import(ESM_SH_URL) has run
    agentCalls,       \* the calls of getAtpAgent, in the order they were made
    loadCalls,        \* the direct calls of loadAtproto, in the order they were made
    heap,             \* the objects of the JavaScript heap, by address
    repliesAt,        \* the replies argument as a reference (<<>> when undefined)
    returnedAt        \* the returned array as a reference (<<>> before the return)

replyVars == <<replies, parentAuthorDid, depth, options, result, pc>>

normVars == <<url, parsed, uri, handle, webUrl, npc>>

viewVars == <<limit, hasIdentifier, usesComposable, showAll, comments, loading, error>>

wiringVars == <<nuxt, resolverBase, componentsDirs, imports, setupResult>>

\* The variables of the parts modelled after the first three.
\* The refs and runs of useBlueskyComments besides comments, loading and
\* error, which are the ones the component reads.
fetchVars == <<locator, fetchOptions, post, stats, postUrl, runs>>

agentVars ==
    <<cachedModule, agentInstance, agentsConstructed, importsStarted, agentCalls,
      loadCalls>>

heapVars == <<heap, repliesAt, returnedAt>>

laterVars == <<wiringVars, fetchVars, agentVars, heapVars>>

vars == <<replyVars, normVars, viewVars, laterVars>>

-----------------------------------------------------------------------------
(* Bounds of the explored inputs *)

\* Largest number of raw nodes (valid or not) in an input thread.
MaxNodes == 3

\* Author DIDs of the replies.
Dids == {"did:a", "did:b"}

\* The value of an omitted optional string argument.
Undefined == "undefined"

\* parentAuthorDid of the top-level call: omitted, or the root post's author.
ParentDids == {Undefined, "did:a"}

\* depth of the top-level call.
Depths == {0, 1}

\* (likeCount, replyCount, repostCount) of a raw post.
Engagements ==
    { [likeCount |-> 0, replyCount |-> 0, repostCount |-> 0],
      [likeCount |-> 1, replyCount |-> 0, repostCount |-> 0],
      [likeCount |-> 0, replyCount |-> 1, repostCount |-> 0],
      [likeCount |-> 0, replyCount |-> 0, repostCount |-> 1],
      [likeCount |-> 1, replyCount |-> 1, repostCount |-> 0] }

\* The replies argument when the thread has no replies field (undefined):
\* the one value that is no array of raw nodes.
AbsentReplies == <<[type |-> "undefined"]>>

\* What a call that throws leaves in place of a returned list.
Thrown(name) == <<[error |-> name]>>

\* An optional boolean is a sequence of length at most one: <<>> is absent.
OptionsSet ==
    { [flattenSameAuthorThreads |-> <<>>],
      [flattenSameAuthorThreads |-> <<TRUE>>],
      [flattenSameAuthorThreads |-> <<FALSE>>] }

-----------------------------------------------------------------------------
(* Sequence helpers *)

RECURSIVE Concat(_)
Concat(ss) == IF ss = <<>> THEN <<>> ELSE Head(ss) \o Concat(Tail(ss))

MapSeq(f(_), s) == [i \in 1..Len(s) |-> f(s[i])]

RECURSIVE SumSeq(_)
SumSeq(s) == IF s = <<>> THEN 0 ELSE Head(s) + SumSeq(Tail(s))

-----------------------------------------------------------------------------
(* Raw threads: every forest of at most MaxNodes raw nodes.  A thread is a  *)
(* shape (who replies to whom) whose nodes, numbered in preorder, are each  *)
(* given a kind: a placeholder, or a post by some author with some counts.  *)

\* The ordered forests of n nodes; a node is the sequence of its children.
RECURSIVE ShapesOfSize(_)
ShapesOfSize(n) ==
    IF n = 0 THEN { <<>> }
    ELSE UNION { { <<t>> \o f : t \in ShapesOfSize(k - 1), f \in ShapesOfSize(n - k) } :
                 k \in 1..n }

Shapes == UNION { ShapesOfSize(n) : n \in 0..MaxNodes }

RECURSIVE ShapeSize(_)
ShapeSize(shape) ==
    IF shape = <<>> THEN 0
    ELSE 1 + ShapeSize(Head(shape)) + ShapeSize(Tail(shape))

\* The number of children of each node, in preorder.
RECURSIVE ChildCounts(_)
ChildCounts(shape) ==
    IF shape = <<>> THEN <<>>
    ELSE <<Len(Head(shape))>> \o ChildCounts(Head(shape)) \o ChildCounts(Tail(shape))

InvalidKinds == { [type |-> "blockedPost"], [type |-> "notFoundPost"] }

PostKinds ==
    { [type |-> "threadViewPost", did |-> did, engagement |-> e] :
        did \in Dids, e \in Engagements }

NodeKinds == InvalidKinds \cup PostKinds

\* A placeholder carries no replies.
WellFormed(shape, kinds) ==
    LET counts == ChildCounts(shape)
    IN  \A i \in 1..Len(counts) : kinds[i] \in InvalidKinds => counts[i] = 0

\* The raw nodes of a shape; the node at preorder position first + 1 is the
\* first of the forest.  Every post gets its own cid: its path from the
\* top-level array.
RECURSIVE RawForest(_, _, _, _)
RawForest(shape, kinds, first, path) ==
    [i \in 1..Len(shape) |->
        LET pos == first + 1 + ShapeSize(SubSeq(shape, 1, i - 1))
            kind == kinds[pos]
        IN  IF kind \in InvalidKinds THEN kind
            ELSE [type |-> "threadViewPost",
                  post |-> [cid |-> Append(path, i),
                            author |-> [did |-> kind.did],
                            likeCount |-> kind.engagement.likeCount,
                            replyCount |-> kind.engagement.replyCount,
                            repostCount |-> kind.engagement.repostCount],
                  replies |-> RawForest(shape[i], kinds, pos, Append(path, i))]]

-----------------------------------------------------------------------------
(* processReplies *)

\* AppBskyFeedDefs.isThreadViewPost: the node carries the thread-view tag.
isThreadViewPost(v) == v.type = "threadViewPost"

\* Mutant: `break` in place of `continue`, so the loop stops at the first
\* node that is no thread-view post.
RECURSIVE ValidRepliesBreak(_)
ValidRepliesBreak(rs) ==
    IF rs = <<>> \/ ~isThreadViewPost(Head(rs)) THEN <<>>
    ELSE <<Head(rs)>> \o ValidRepliesBreak(Tail(rs))

\* The for loop's `continue` on a node that is no thread-view post: the loop
\* body runs for the valid nodes, in input order.
ValidReplies(rs) == SelectSeq(rs, isThreadViewPost)

\* Mutant: options.flattenSameAuthorThreads || true
FlattenOptionOr(opts) == TRUE

\* Mutant: options.flattenSameAuthorThreads ?? false
FlattenOptionDefaultFalse(opts) ==
    IF opts.flattenSameAuthorThreads = <<>> THEN FALSE
    ELSE opts.flattenSameAuthorThreads[1]

\* options.flattenSameAuthorThreads ?? true
FlattenOption(opts) ==
    IF opts.flattenSameAuthorThreads = <<>> THEN TRUE
    ELSE opts.flattenSameAuthorThreads[1]

\* Mutant: parentAuthorDid: author.did in the comment literal.
MakeCommentOwnParent(reply, parentDid, d) ==
    [id |-> reply.post.cid,
     author |-> [did |-> reply.post.author.did],
     likeCount |-> reply.post.likeCount,
     replyCount |-> reply.post.replyCount,
     repostCount |-> reply.post.repostCount,
     depth |-> d,
     replies |-> <<>>,
     parentAuthorDid |-> reply.post.author.did]

\* The comment object literal built for one valid reply; both branches of
\* `isSameAuthor ? depth : depth` give the depth of the call.
MakeComment(reply, parentDid, d) ==
    [id |-> reply.post.cid,
     author |-> [did |-> reply.post.author.did],
     likeCount |-> reply.post.likeCount,
     replyCount |-> reply.post.replyCount,
     repostCount |-> reply.post.repostCount,
     depth |-> d,
     replies |-> <<>>,
     parentAuthorDid |-> parentDid]

\* Mutant: nestedReply.parentAuthorDid === author.did
IsContinuationByParent(nestedReply, authorDid) ==
    nestedReply.parentAuthorDid = authorDid

\* Mutant: the partition without its author test, so every nested reply is
\* promoted.
IsContinuationAlways(nestedReply, authorDid) == TRUE

\* nestedReply.author.did === author.did
IsContinuation(nestedReply, authorDid) == nestedReply.author.did = authorDid

\* Mutant: the spread without the depth rewrite.
PromoteContinuationKeepDepth(nestedReply, d, authorDid) ==
    [nestedReply EXCEPT !.parentAuthorDid = authorDid]

\* { ...nestedReply, depth: depth, parentAuthorDid: author.did }
PromoteContinuation(nestedReply, d, authorDid) ==
    [nestedReply EXCEPT !.depth = d, !.parentAuthorDid = authorDid]

\* Mutant: the partition tests the call's parentAuthorDid (isSameAuthor's
\* comparison) in place of the comment's author.
PartitionGroupByParent(comment, nestedReplies, d) ==
    LET did == comment.parentAuthorDid
        same(n) == IsContinuation(n, did)
        other(n) == ~IsContinuation(n, did)
        promote(n) == PromoteContinuation(n, d, did)
    IN  [head |-> [comment EXCEPT !.replies = SelectSeq(nestedReplies, other)],
         continuations |-> MapSeq(promote, SelectSeq(nestedReplies, same))]

\* Mutant: the replies by other authors are not kept under the comment.
PartitionGroupDroppingOthers(comment, nestedReplies, d) ==
    LET did == comment.author.did
        same(n) == IsContinuation(n, did)
        promote(n) == PromoteContinuation(n, d, did)
    IN  [head |-> comment,
         continuations |-> MapSeq(promote, SelectSeq(nestedReplies, same))]

\* Mutant: comment.replies = nestedReplies, so a promoted reply also stays
\* under the comment.
PartitionGroupKeepingReplies(comment, nestedReplies, d) ==
    LET did == comment.author.did
        same(n) == IsContinuation(n, did)
        promote(n) == PromoteContinuation(n, d, did)
    IN  [head |-> [comment EXCEPT !.replies = nestedReplies],
         continuations |-> MapSeq(promote, SelectSeq(nestedReplies, same))]

\* The partition loop over nestedReplies, and the group it pushes.
PartitionGroup(comment, nestedReplies, d) ==
    LET did == comment.author.did
        same(n) == IsContinuation(n, did)
        other(n) == ~IsContinuation(n, did)
        promote(n) == PromoteContinuation(n, d, did)
    IN  [head |-> [comment EXCEPT !.replies = SelectSeq(nestedReplies, other)],
         continuations |-> MapSeq(promote, SelectSeq(nestedReplies, same))]

\* Mutant: the score counts reposts too.
ScoreWithReposts(g) == g.head.likeCount + g.head.replyCount + g.head.repostCount

\* a.head.likeCount + a.head.replyCount
Score(g) == g.head.likeCount + g.head.replyCount

\* Array.prototype.sort with the comparator scoreB - scoreA: a stable sort
\* (ECMAScript 2019), descending by score.  Insertion of g after every
\* element that does not compare after it.
\* Mutant: an unstable sort, which puts g in front of the elements it ties with.
RECURSIVE InsertGroupBeforeTies(_, _)
InsertGroupBeforeTies(g, sorted) ==
    IF sorted = <<>> THEN <<g>>
    ELSE IF Score(Head(sorted)) > Score(g)
         THEN <<Head(sorted)>> \o InsertGroupBeforeTies(g, Tail(sorted))
         ELSE <<g>> \o sorted

RECURSIVE InsertGroup(_, _)
InsertGroup(g, sorted) ==
    IF sorted = <<>> THEN <<g>>
    ELSE IF Score(Head(sorted)) >= Score(g)
         THEN <<Head(sorted)>> \o InsertGroup(g, Tail(sorted))
         ELSE <<g>> \o sorted

RECURSIVE SortGroups(_)
SortGroups(groups) ==
    IF groups = <<>> THEN <<>>
    ELSE InsertGroup(groups[Len(groups)], SortGroups(SubSeq(groups, 1, Len(groups) - 1)))

\* Mutant: all heads first, then all continuations.
FlatMapGroupsHeadsFirst(groups) ==
    LET head(g) == <<g.head>>
        rest(g) == g.continuations
    IN  Concat(MapSeq(head, groups)) \o Concat(MapSeq(rest, groups))

\* Mutant: groups.map((g) => g.head), which drops the continuations.
FlatMapGroupsHeadsOnly(groups) ==
    LET head(g) == g.head
    IN  MapSeq(head, groups)

\* groups.flatMap((g) => [g.head, ...g.continuations])
FlatMapGroups(groups) ==
    LET unit(g) == <<g.head>> \o g.continuations
    IN  Concat(MapSeq(unit, groups))

RECURSIVE processReplies(_, _, _, _)

\* One iteration of the for loop on a valid reply: the group it pushes.
GroupOf(reply, parentDid, d, opts) ==
    LET comment == MakeComment(reply, parentDid, d)
    IN  IF Len(reply.replies) > 0
        THEN LET nestedReplies ==
                    processReplies(reply.replies, reply.post.author.did, d + 1, opts)
             IN  IF FlattenOption(opts)
                 THEN PartitionGroup(comment, nestedReplies, d)
                 ELSE [head |-> [comment EXCEPT !.replies = nestedReplies],
                       continuations |-> <<>>]
        ELSE [head |-> comment, continuations |-> <<>>]

\* The groups array after the for loop, before the sort.
BuildGroups(rs, parentDid, d, opts) ==
    LET valid == ValidReplies(rs)
    IN  [i \in 1..Len(valid) |-> GroupOf(valid[i], parentDid, d, opts)]

\* Mutant: the guard `replies.length === 0` alone, which reads the length of
\* undefined.
processRepliesLengthOnly(rs, parentDid, d, opts) ==
    IF rs = AbsentReplies THEN Thrown("TypeError")
    ELSE IF Len(rs) = 0 THEN <<>>
    ELSE FlatMapGroups(SortGroups(BuildGroups(rs, parentDid, d, opts)))

processReplies(rs, parentDid, d, opts) ==
    IF rs = AbsentReplies \/ Len(rs) = 0 THEN <<>>
    ELSE FlatMapGroups(SortGroups(BuildGroups(rs, parentDid, d, opts)))

-----------------------------------------------------------------------------
(* parseBlueskyUrl and uriToUrl *)

\* What parseBlueskyUrl returns when the string has no match.
Null == [null |-> TRUE]

\* The literal lit stands in s at position i.
LiteralAt(s, i, lit) ==
    /\ i + Len(lit) - 1 <= Len(s)
    /\ SubSeq(s, i, i + Len(lit) - 1) = lit

\* The position after the longest run of tokens outside stop that starts at
\* position i: a greedy character class.
RECURSIVE RunEnd(_, _, _)
RunEnd(s, i, stop) ==
    IF i > Len(s) \/ s[i] \in stop THEN i ELSE RunEnd(s, i + 1, stop)

\* Two capture groups, each a greedy class of one or more tokens: the first
\* starts at position i and is followed by the literal mid, the second ends at
\* a token of stop or at the end of the string.
CaptureTwo(s, i, mid, stop) ==
    LET e == RunEnd(s, i, {"/"})
        f == e + Len(mid)
        g == RunEnd(s, f, stop)
    IN  IF e > i /\ LiteralAt(s, e, mid) /\ g > f
        THEN << SubSeq(s, i, e - 1), SubSeq(s, f, g - 1) >>
        ELSE <<>>

WebHead == <<":", "/", "/", "bsky.app", "/", "profile", "/">>

\* Mutant: ([^/]+) as the second group too, so the rkey runs over "?" and "#".
WebMatchAtSlashOnly(s, i) ==
    LET a == IF LiteralAt(s, i, <<"http", "s">>) THEN i + 2 ELSE i + 1
    IN  IF LiteralAt(s, i, <<"http">>) /\ LiteralAt(s, a, WebHead)
        THEN CaptureTwo(s, a + Len(WebHead), <<"/", "post", "/">>, {"/"})
        ELSE <<>>

\* /https?:\/\/bsky\.app\/profile\/([^/]+)\/post\/([^/?#]+)/ tried at
\* position i: the two captures, or <<>> when it does not match there.
WebMatchAt(s, i) ==
    LET a == IF LiteralAt(s, i, <<"http", "s">>) THEN i + 2 ELSE i + 1
    IN  IF LiteralAt(s, i, <<"http">>) /\ LiteralAt(s, a, WebHead)
        THEN CaptureTwo(s, a + Len(WebHead), <<"/", "post", "/">>, {"/", "?", "#"})
        ELSE <<>>

\* Mutant: /at:\/\/([^/]+)\/[^/]+\/([^/?#]+)/, any collection segment.
UriMatchAtAnyCollection(s, i) ==
    LET e == RunEnd(s, i + 4, {"/"})
    IN  IF LiteralAt(s, i, <<"at", ":", "/", "/">>) /\ e + 1 <= Len(s)
        THEN CaptureTwo(s, i + 4, <<"/", s[e + 1], "/">>, {"/", "?", "#"})
        ELSE <<>>

\* /at:\/\/([^/]+)\/app\.bsky\.feed\.post\/([^/?#]+)/ tried at position i.
UriMatchAt(s, i) ==
    IF LiteralAt(s, i, <<"at", ":", "/", "/">>)
    THEN CaptureTwo(s, i + 4, <<"/", "app.bsky.feed.post", "/">>, {"/", "?", "#"})
    ELSE <<>>

\* String.prototype.match with a regular expression without flags: the match
\* at the leftmost position that has one, or <<>> (null).
FirstMatch(s, MatchAt(_, _)) ==
    LET starts == { i \in 1..Len(s) : MatchAt(s, i) # <<>> }
    IN  IF starts = {} THEN <<>>
        ELSE MatchAt(s, CHOOSE i \in starts : \A j \in starts : i <= j)

parseBlueskyUrl(u) ==
    LET match == FirstMatch(u, WebMatchAt)
    IN  IF match = <<>> THEN Null
        ELSE [identifier |-> match[1], rkey |-> match[2]]

\* Mutant: handle ?? did, only an omitted handle gives the DID.
HandleOrNullish(h, did) == IF h = <<>> THEN did ELSE h[1]

\* handle || did: an omitted handle (<<>>) and the empty string are falsy.
HandleOr(h, did) == IF h = <<>> \/ h[1] = <<>> THEN did ELSE h[1]

\* Mutant: the collection segment of the URI kept in the URL.
uriToUrlKeepCollection(u, h) ==
    LET match == FirstMatch(u, UriMatchAt)
    IN  IF match = <<>> THEN <<>>
        ELSE <<"http", "s">> \o WebHead \o HandleOr(h, match[1])
               \o <<"/", "app.bsky.feed.post", "/">> \o match[2]

uriToUrl(u, h) ==
    LET match == FirstMatch(u, UriMatchAt)
    IN  IF match = <<>> THEN <<>>
        ELSE <<"http", "s">> \o WebHead \o HandleOr(h, match[1])
               \o <<"/", "post", "/">> \o match[2]

-----------------------------------------------------------------------------
(* The strings the two functions are called with *)

\* Longest string of arbitrary tokens tried besides the composed ones.
MaxTokens == 2

Tokens ==
    { ":", "/", "?", "#", "http", "s", "at", "bsky.app", "profile", "post",
      "app.bsky.feed.post", "x" }

RECURSIVE TokenStrings(_)
TokenStrings(n) ==
    IF n = 0 THEN { <<>> }
    ELSE TokenStrings(n - 1)
         \cup { Append(t, k) : t \in { w \in TokenStrings(n - 1) : Len(w) = n - 1 },
                               k \in Tokens }

Slash == <<"/">>

\* Strings built like a post URL, with each part right or wrong.
WebInputs ==
    { pre \o scheme \o <<":", "/", "/">> \o host \o Slash \o seg \o Slash
        \o ident \o Slash \o coll \o Slash \o rkey \o rest :
        pre \in { <<>>, <<"x">> },
        scheme \in { <<"http">>, <<"http", "s">>, <<"ftp">> },
        host \in { <<"bsky.app">>, <<"example.com">> },
        seg \in { <<"profile">>, <<"x">> },
        ident \in { <<>>, <<"alice.test">>, <<"did", ":", "abc">>, <<"a", "?", "b">> },
        coll \in { <<"post">>, <<"feed">> },
        rkey \in { <<>>, <<"rk">>, <<"rk", ":", "1">> },
        rest \in { <<>>, <<"/", "x">>, <<"?", "q">>, <<"#", "f">> } }

\* Strings built like an AT URI, with each part right or wrong.
UriInputs ==
    { pre \o scheme \o <<":", "/", "/">> \o did \o Slash \o coll \o Slash
        \o rkey \o rest :
        pre \in { <<>>, <<"x">> },
        scheme \in { <<"at">>, <<"http">> },
        did \in { <<>>, <<"did", ":", "abc">>, <<"alice.test">>, <<"a", "?", "b">> },
        coll \in { <<"app.bsky.feed.post">>, <<"app.bsky.feed.like">>, <<"post">> },
        rkey \in { <<>>, <<"rk">>, <<"rk", ":", "1">> },
        rest \in { <<>>, <<"/", "x">>, <<"?", "q">>, <<"#", "f">> } }

\* The handle argument: omitted, the empty string, a handle, and strings that
\* are no handle.
HandleInputs ==
    { <<>>, << <<>> >>, << <<"alice.test">> >>, << <<"a", "?", "b">> >>,
      << <<"a", "/", "b">> >>, << <<"a", "/", "post", "/", "b">> >> }

-----------------------------------------------------------------------------
(* Parts of the program that have not been called *)

RepliesIdle ==
    /\ replies = <<>>
    /\ parentAuthorDid = Undefined
    /\ depth = 0
    /\ options = [flattenSameAuthorThreads |-> <<>>]
    /\ result = <<>>
    /\ pc = "ready"

NormalizerIdle ==
    /\ url = <<>>
    /\ parsed = Null
    /\ uri = <<>>
    /\ handle = <<>>
    /\ webUrl = <<>>
    /\ npc = "idle"

\* The module's setup has not been handed a Nuxt object.
WiringIdle ==
    /\ nuxt = [build |-> [transpile |-> <<>>], nitro |-> <<>>]
    /\ resolverBase = <<>>
    /\ componentsDirs = <<>>
    /\ imports = <<>>
    /\ setupResult = "none"

\* Largest number of fetchComments calls on one composable: the call made on
\* creation and the refresh calls.
MaxRuns == 2

\* useBlueskyComments has not been called: no run has started.
FetchIdle ==
    /\ locator = <<>>
    /\ fetchOptions = [flattenSameAuthorThreads |-> <<>>]
    /\ post = <<>>
    /\ stats = [likeCount |-> 0, repostCount |-> 0, replyCount |-> 0, quoteCount |-> 0]
    /\ postUrl = <<>>
    /\ runs = [r \in 1..MaxRuns |->
                 [pc |-> "idle", uri |-> <<>>, rkey |-> <<>>, calls |-> <<>>,
                  outcome |-> <<>>, overlapped |-> FALSE, before |-> <<>>]]

\* Largest number of getAtpAgent calls.
MaxAgentCalls == 3

\* Largest number of direct calls of loadAtproto.
MaxLoadCalls == 2

\* The loader as the module is evaluated: nothing cached, nothing called.
AgentIdle ==
    /\ cachedModule = <<>>
    /\ agentInstance = <<>>
    /\ agentsConstructed = 0
    /\ importsStarted = 0
    /\ agentCalls = [c \in 1..MaxAgentCalls |-> [pc |-> "idle", result |-> <<>>]]
    /\ loadCalls = [d \in 1..MaxLoadCalls |-> [pc |-> "idle", result |-> <<>>]]

\* No thread has been put on the heap.
HeapIdle ==
    /\ heap = <<>>
    /\ repliesAt = <<>>
    /\ returnedAt = <<>>

LaterIdle == WiringIdle /\ FetchIdle /\ AgentIdle /\ HeapIdle

-----------------------------------------------------------------------------
(* The BlueskyComments component: the list it shows and its "show more"     *)
(* control.  The list is what useBlueskyComments loaded.                    *)

\* Longest top-level list loaded.
MaxComments == 7

\* withDefaults: limit when the prop is omitted.
DefaultLimit == 5

\* The limit prop: omitted (<<>>) or a count.
LimitProps == { <<>>, <<0>>, <<1>>, <<2>>, <<MaxComments>> }

withDefaults(limitProp) == IF limitProp = <<>> THEN DefaultLimit ELSE limitProp[1]

NoIdentifierError == "No Bluesky post URL or URI provided"

\* The message of the catch block, without the locator and cause it may add.
LoadError == "Failed to load comments"

\* Array.prototype.slice(0, end) for end >= 0.
Slice(s, end) == SubSeq(s, 1, IF end < Len(s) THEN end ELSE Len(s))

\* Mutant: the list is cut at limit whatever showAll is.
visibleCommentsAlwaysSliced == Slice(comments, limit)

visibleComments == IF showAll THEN comments ELSE Slice(comments, limit)

hasMoreComments == Len(comments) > limit /\ ~showAll

remainingCount == Len(comments) - limit

\* The branch of the template that renders the list: v-else after loading,
\* error and the empty list.
ListRendered == ~loading /\ error = <<>> /\ Len(comments) # 0

\* "Try again" is rendered in the error branch when there is an identifier
\* now, whatever there was at setup.
TryAgainRendered == ~loading /\ error # <<>> /\ hasIdentifier

\* No component has been set up.
ViewIdle ==
    /\ limit = DefaultLimit
    /\ hasIdentifier = FALSE
    /\ usesComposable = FALSE
    /\ showAll = FALSE
    /\ comments = <<>>
    /\ loading = FALSE
    /\ error = <<>>

-----------------------------------------------------------------------------
(* The Nuxt module: setup(_options, nuxt) of src/module.ts.  The calls of   *)
(* addComponentsDir and addImports are kept as lists; an option of the Nuxt *)
(* object that may be missing is a sequence of length at most 1.  A path is *)
(* the directory of the resolver followed by the relative path.             *)

\* Longest transpile or inline list the Nuxt object comes with.
MaxListed == 2

ListedPackages == { "vue", "@atproto/api" }

PackageLists == UNION { [1..k -> ListedPackages] : k \in 0..MaxListed }

\* nuxt.options.nitro: missing, without externals, with externals without
\* inline, or with an inline list.
NitroOptions ==
    { <<>>, << [externals |-> <<>>] >>, << [externals |-> << [inline |-> <<>>] >>] >> }
    \cup { << [externals |-> << [inline |-> <<l>>] >>] >> : l \in PackageLists }

NuxtOptions ==
    { [build |-> [transpile |-> t], nitro |-> n] :
        t \in PackageLists, n \in NitroOptions }

\* createResolver(import.meta.url): the directory of the module, empty for a
\* resolver that returns the path it is given.
ResolverBases == { <<>>, <<"/dist">> }

resolve(base, path) == base \o <<path>>

\* x ||= {} followed by x.inline ||= [] and the push.
InlinedNitro(nitro) ==
    LET externals == nitro[1].externals
        inline == IF externals = <<>> THEN <<>> ELSE externals[1].inline
        list == IF inline = <<>> THEN <<>> ELSE inline[1]
    IN  << [externals |-> << [inline |-> << Append(list, "@atproto/api") >>] >>] >>

InitWiring ==
    /\ RepliesIdle /\ NormalizerIdle /\ ViewIdle /\ FetchIdle /\ AgentIdle
    /\ HeapIdle
    /\ nuxt \in NuxtOptions
    /\ resolverBase \in ResolverBases
    /\ componentsDirs = <<>>
    /\ imports = <<>>
    /\ setupResult = "none"

\* setup(_options, nuxt): it has no await, so it runs to its end or to its
\* first throw in one step; reading .externals of a missing nitro throws.
setup ==
    /\ setupResult = "none"
    /\ componentsDirs' =
          Append(componentsDirs,
                 [path |-> resolve(resolverBase, "./runtime/components"),
                  pathPrefix |-> FALSE, prefix |-> "", global |-> TRUE])
    /\ imports' =
          Append(imports,
                 [name |-> "useBlueskyComments", as |-> "useBlueskyComments",
                  from |-> resolve(resolverBase,
                                   "./runtime/composables/useBlueskyComments")])
    /\ LET transpile == Append(nuxt.build.transpile, "@atproto/api")
       IN  IF nuxt.nitro = <<>>
           THEN /\ nuxt' = [build |-> [transpile |-> transpile], nitro |-> <<>>]
                /\ setupResult' = Thrown("TypeError")
           ELSE /\ nuxt' = [build |-> [transpile |-> transpile],
                            nitro |-> InlinedNitro(nuxt.nitro)]
                /\ setupResult' = "resolved"
    /\ UNCHANGED resolverBase
    /\ UNCHANGED <<replyVars, normVars, viewVars, fetchVars, agentVars, heapVars>>

NextWiring == setup

SpecWiring == InitWiring /\ [][NextWiring]_vars

-----------------------------------------------------------------------------
(* useBlueskyComments: fetchComments and resolveUri.  A run is one call of  *)
(* fetchComments; runs[r] is the r-th call started.  A run advances from    *)
(* one await to the next in one step, and steps of different runs           *)
(* interleave.  The answers of the API are chosen when they arrive.         *)

AtScheme == <<"at", ":", "/", "/">>

ResolvedDid == <<"did", ":", "abc">>

\* `at://${identifier}/app.bsky.feed.post/${rkey}`
AtUriOf(identifier, rkey) ==
    AtScheme \o identifier \o <<"/", "app.bsky.feed.post", "/">> \o rkey

FetchLocators ==
    { AtUriOf(ResolvedDid, <<"rk">>),
      AtScheme \o ResolvedDid \o <<"/", "app.bsky.feed.like", "/", "rk">>,
      <<"http", "s">> \o WebHead \o <<"alice.test", "/", "post", "/", "rk">>,
      <<"http", "s">> \o WebHead \o ResolvedDid \o <<"/", "post", "/", "rk">>,
      <<"x">> }

\* The root post of a fetched thread; a count the API omits is <<>>.
RootPosts ==
    { [cid |-> "root1",
       author |-> [did |-> "did:a", handle |-> <<"alice.test">>],
       likeCount |-> <<>>, repostCount |-> <<>>, replyCount |-> <<>>,
       quoteCount |-> <<>>],
      [cid |-> "root2",
       author |-> [did |-> "did:b", handle |-> <<>>],
       likeCount |-> <<3>>, repostCount |-> <<0>>, replyCount |-> <<2>>,
       quoteCount |-> <<1>>] }

NoEngagement == [likeCount |-> 0, replyCount |-> 0, repostCount |-> 0]

\* n replies to the root post, none with replies of its own.
LongReplies(n) ==
    RawForest([i \in 1..n |-> <<>>],
              [i \in 1..n |-> [type |-> "threadViewPost",
                               did |-> IF i % 2 = 0 THEN "did:a" ELSE "did:b",
                               engagement |-> NoEngagement]], 0, <<>>)

\* thread.replies of a fetched thread: missing, empty, a reply by did:a with
\* a reply of its own by did:a, a placeholder before a liked reply, and two
\* lists longer than the default limit of the component.
FetchedReplies ==
    { AbsentReplies,
      <<>>,
      LongReplies(DefaultLimit + 1),
      LongReplies(MaxComments),
      RawForest(<< << <<>> >> >>,
                << [type |-> "threadViewPost", did |-> "did:a",
                    engagement |-> NoEngagement],
                   [type |-> "threadViewPost", did |-> "did:a",
                    engagement |-> NoEngagement] >>, 0, <<>>),
      RawForest(<< <<>>, <<>>, <<>> >>,
                << [type |-> "blockedPost"],
                   [type |-> "threadViewPost", did |-> "did:b",
                    engagement |-> NoEngagement],
                   [type |-> "threadViewPost", did |-> "did:a",
                    engagement |-> [likeCount |-> 1, replyCount |-> 0,
                                    repostCount |-> 0]] >>, 0, <<>>) }

\* What awaiting agent.getPostThread gives: a rejection with an Error or with
\* another value, a response without success, a thread that is a blocked or
\* not-found post or no post at all, or a thread-view post.
ThreadFailures ==
    { "rejected", "rejectedNonError", "unsuccessful", "blocked", "notFound",
      "notThread" }

ThreadResponses ==
    { [kind |-> k] : k \in ThreadFailures }
    \cup { [kind |-> "thread", post |-> p, replies |-> rs] :
             p \in RootPosts, rs \in FetchedReplies }

\* What was thrown: an Error with its message, as the parts of the message,
\* or a value that is no Error.
ErrorOf(message) == [isError |-> TRUE, message |-> message]

NonError == [isError |-> FALSE]

\* The throw of fetchComments for a response to the request of u that is no
\* thread-view post: two of the messages end with the URI.
CauseOf(kind, u) ==
    CASE kind = "rejected" -> ErrorOf(<<"request failed">>)
      [] kind = "rejectedNonError" -> NonError
      [] kind = "unsuccessful" -> ErrorOf(<<"Failed to fetch post", u>>)
      [] kind = "blocked" -> ErrorOf(<<"This post is from a blocked account">>)
      [] kind = "notFound" -> ErrorOf(<<"Post not found", u>>)
      [] kind = "notThread" -> ErrorOf(<<"Post not found or not accessible">>)

\* Mutant: the message of the cause alone.
FailureMessageOfCause(cause) ==
    IF cause.isError THEN cause.message ELSE <<"unknown">>

\* The message of the catch block, as its parts.
FailureMessage(cause) ==
    IF cause.isError
    THEN <<LoadError, "from", locator, cause.message>>
    ELSE <<LoadError>>

\* count || 0
CountOr0(count) == IF count = <<>> THEN 0 ELSE count[1]

StatsOf(p) ==
    [likeCount |-> CountOr0(p.likeCount), repostCount |-> CountOr0(p.repostCount),
     replyCount |-> CountOr0(p.replyCount), quoteCount |-> CountOr0(p.quoteCount)]

\* Mutant: uriToUrl(uri), the handle left out.
LoadedPostUrlWithoutHandle(u, p) == uriToUrl(u, <<>>)

\* uriToUrl(uri, thread.post.author.handle)
LoadedPostUrl(u, p) == uriToUrl(u, <<p.author.handle>>)

\* processReplies(thread.replies, thread.post.author.did, 0, options)
LoadedComments(thread) ==
    processReplies(thread.replies, thread.post.author.did, 0, fetchOptions)

startsWith(str, prefix) ==
    /\ Len(prefix) <= Len(str)
    /\ SubSeq(str, 1, Len(prefix)) = prefix

\* A run before it started.
IdleRun ==
    [pc |-> "idle", uri |-> <<>>, rkey |-> <<>>, calls |-> <<>>,
     outcome |-> <<>>, overlapped |-> FALSE, before |-> <<>>]

\* resolveUri(input) up to its first await or its end: the URI is at hand,
\* the input did not parse, or agent.resolveHandle has been called.
ResolveUriStart(input) ==
    IF startsWith(input, AtScheme)
    THEN [IdleRun EXCEPT !.pc = "haveUri", !.uri = input]
    ELSE LET p == parseBlueskyUrl(input)
         IN  IF p = Null THEN [IdleRun EXCEPT !.pc = "parseFailed"]
             ELSE IF startsWith(p.identifier, <<"did", ":">>)
             THEN [IdleRun EXCEPT !.pc = "haveUri",
                                  !.uri = AtUriOf(p.identifier, p.rkey)]
             ELSE [IdleRun EXCEPT !.pc = "resolvingHandle", !.rkey = p.rkey,
                                  !.calls = <<"resolveHandle">>]

InFlight(r) == runs[r].pc \notin {"idle", "done"}

\* What the refs hold that only a successful run writes.
Loaded == <<post, stats, postUrl, comments>>

FetchUnchanged ==
    /\ UNCHANGED <<locator, fetchOptions, limit, hasIdentifier, usesComposable, showAll>>
    /\ UNCHANGED <<replyVars, normVars, wiringVars, agentVars, heapVars>>

\* useBlueskyComments(locator, fetchOptions) has returned: the refs are
\* created and fetchComments has been called once and has run to its first
\* await.
useBlueskyComments ==
    /\ loading = TRUE
    /\ error = <<>>
    /\ post = <<>>
    /\ stats = [likeCount |-> 0, repostCount |-> 0, replyCount |-> 0, quoteCount |-> 0]
    /\ postUrl = <<>>
    /\ comments = <<>>
    /\ runs = [r \in 1..MaxRuns |->
                 IF r = 1
                 THEN [ResolveUriStart(locator) EXCEPT
                         !.before = << <<>>,
                                       [likeCount |-> 0, repostCount |-> 0,
                                        replyCount |-> 0, quoteCount |-> 0],
                                       <<>>, <<>> >>]
                 ELSE IdleRun]

\* The composable used on its own, without the component.
InitFetch ==
    /\ RepliesIdle /\ NormalizerIdle /\ WiringIdle /\ AgentIdle /\ HeapIdle
    /\ limit = DefaultLimit /\ hasIdentifier = FALSE /\ usesComposable = FALSE
    /\ showAll = FALSE
    /\ locator \in FetchLocators
    /\ fetchOptions \in OptionsSet
    /\ useBlueskyComments

\* refresh(): fetchComments is called again, while earlier runs may still be
\* waiting, and runs to its first await.
refreshCall(r) ==
    /\ r > 1
    /\ runs[r].pc = "idle"
    /\ runs[r - 1].pc # "idle"
    /\ loading' = TRUE
    /\ error' = <<>>
    /\ runs' = [q \in 1..MaxRuns |->
                  IF q = r
                  THEN [ResolveUriStart(locator) EXCEPT
                          !.overlapped = \E o \in 1..MaxRuns : InFlight(o),
                          !.before = Loaded]
                  ELSE IF InFlight(q) THEN [runs[q] EXCEPT !.overlapped = TRUE]
                  ELSE runs[q]]
    /\ UNCHANGED Loaded
    /\ FetchUnchanged

\* Mutant: the catch block also empties the list.
CatchClearingComments(r, cause) ==
    /\ error' = <<FailureMessage(cause)>>
    /\ loading' = FALSE
    /\ runs' = [runs EXCEPT ![r].pc = "done",
                            ![r].outcome = <<[kind |-> "failed",
                                              message |-> FailureMessage(cause)]>>]
    /\ comments' = <<>>
    /\ UNCHANGED <<post, stats, postUrl>>
    /\ FetchUnchanged

\* catch (e) { error.value = ... } finally { loading.value = false }
Catch(r, cause) ==
    /\ error' = <<FailureMessage(cause)>>
    /\ loading' = FALSE
    /\ runs' = [runs EXCEPT ![r].pc = "done",
                            ![r].outcome = <<[kind |-> "failed",
                                              message |-> FailureMessage(cause)]>>]
    /\ UNCHANGED Loaded
    /\ FetchUnchanged

\* The await of resolveUri ends for an input that did not parse.
ParseFailureCaught(r) ==
    /\ runs[r].pc = "parseFailed"
    /\ Catch(r, ErrorOf(<<"Invalid Bluesky URL format">>))

\* The await of resolveUri ends with a URI: agent.getPostThread is called.
ThreadRequested(r) ==
    /\ runs[r].pc = "haveUri"
    /\ runs' = [runs EXCEPT ![r].pc = "fetching",
                            ![r].calls = Append(@, "getPostThread")]
    /\ UNCHANGED <<loading, error>>
    /\ UNCHANGED Loaded
    /\ FetchUnchanged

\* agent.resolveHandle answers with a DID: resolveUri resumes and returns the
\* URI; the await of resolveUri in fetchComments has still to end.
HandleResolved(r) ==
    /\ runs[r].pc = "resolvingHandle"
    /\ runs' = [runs EXCEPT ![r].pc = "haveUri",
                            ![r].uri = AtUriOf(ResolvedDid, runs[r].rkey)]
    /\ UNCHANGED <<loading, error>>
    /\ UNCHANGED Loaded
    /\ FetchUnchanged

\* agent.resolveHandle rejects.
HandleRejected(r) ==
    /\ runs[r].pc = "resolvingHandle"
    /\ \E cause \in { ErrorOf(<<"Unable to resolve handle">>), NonError } : Catch(r, cause)

\* agent.getPostThread settles with anything but a thread-view post.
ThreadFailed(r) ==
    /\ runs[r].pc = "fetching"
    /\ \E k \in ThreadFailures : Catch(r, CauseOf(k, runs[r].uri))

\* agent.getPostThread answers with a thread-view post: the refs are
\* assigned and finally clears loading.
ThreadLoaded(r) ==
    /\ runs[r].pc = "fetching"
    /\ \E thread \in { t \in ThreadResponses : t.kind = "thread" } :
          /\ post' = <<thread.post>>
          /\ stats' = StatsOf(thread.post)
          /\ postUrl' = LoadedPostUrl(runs[r].uri, thread.post)
          /\ comments' = LoadedComments(thread)
          /\ runs' = [runs EXCEPT ![r].pc = "done", ![r].outcome = <<thread>>]
    /\ loading' = FALSE
    /\ UNCHANGED error
    /\ FetchUnchanged

NextFetch ==
    \E r \in 1..MaxRuns :
       \/ refreshCall(r)
       \/ ParseFailureCaught(r)
       \/ ThreadRequested(r)
       \/ HandleResolved(r)
       \/ HandleRejected(r)
       \/ ThreadFailed(r)
       \/ ThreadLoaded(r)

SpecFetch == InitFetch /\ [][NextFetch]_vars

-----------------------------------------------------------------------------
(* The BlueskyComments component on top of the composable: setup, the       *)
(* clicks on its two buttons, the prop changes of its parent, and the steps *)
(* of the fetchComments runs it started.                                    *)

\* The flattenSameAuthorThreads prop after withDefaults (true when omitted),
\* as the options passed to useBlueskyComments.
ComponentOptions == { [flattenSameAuthorThreads |-> <<b>>] : b \in BOOLEAN }

\* The component after setup: with an identifier it has called
\* useBlueskyComments, which started fetchComments; without one the refs are
\* the fixed ones of the component and refresh does nothing.  The choice is
\* made once, from hasIdentifier as it is at setup.
Setup ==
    /\ \E p \in LimitProps : limit = withDefaults(p)
    /\ hasIdentifier \in BOOLEAN
    /\ usesComposable = hasIdentifier
    /\ showAll = FALSE
    /\ IF usesComposable
       THEN /\ locator \in FetchLocators
            /\ fetchOptions \in ComponentOptions
            /\ useBlueskyComments
       ELSE /\ FetchIdle
            /\ loading = FALSE
            /\ error = <<NoIdentifierError>>
            /\ comments = <<>>

InitView ==
    RepliesIdle /\ NormalizerIdle /\ WiringIdle /\ AgentIdle /\ HeapIdle /\ Setup

\* A click on "Try again": fetchComments starts again, or, when setup found
\* no identifier, the refresh that does nothing is called.
refresh ==
    /\ TryAgainRendered
    /\ IF usesComposable
       THEN \E r \in 1..MaxRuns : refreshCall(r)
       ELSE UNCHANGED vars

\* A click on the "show more" button, rendered when hasMoreComments.
showMoreComments ==
    /\ hasMoreComments
    /\ showAll' = TRUE
    /\ UNCHANGED <<limit, hasIdentifier, usesComposable, comments, loading, error>>
    /\ UNCHANGED <<replyVars, normVars, laterVars>>

\* The parent passes another limit.
LimitChanged ==
    /\ \E p \in LimitProps :
          /\ withDefaults(p) # limit
          /\ limit' = withDefaults(p)
    /\ UNCHANGED <<hasIdentifier, usesComposable, showAll, comments, loading, error>>
    /\ UNCHANGED <<replyVars, normVars, laterVars>>

\* The parent passes or removes the uri / url props: hasIdentifier follows;
\* the refs and refresh stay those chosen at setup.
IdentifierChanged ==
    /\ hasIdentifier' = ~hasIdentifier
    /\ UNCHANGED <<limit, usesComposable, showAll, comments, loading, error>>
    /\ UNCHANGED <<replyVars, normVars, laterVars>>

NextView ==
    \/ \E r \in 1..MaxRuns :
          \/ ParseFailureCaught(r)
          \/ ThreadRequested(r)
          \/ HandleResolved(r)
          \/ HandleRejected(r)
          \/ ThreadFailed(r)
          \/ ThreadLoaded(r)
    \/ refresh
    \/ showMoreComments
    \/ LimitChanged
    \/ IdentifierChanged

SpecView == InitView /\ [][NextView]_vars

-----------------------------------------------------------------------------
(* The loader: loadAtproto and getAtpAgent.  A call of getAtpAgent advances *)
(* from one await to the next in one step; calls interleave at the awaits.  *)
(* An AtpAgent instance is named by the number of its construction.         *)

TheModule == "@atproto/api"

\* new AtpAgent({ service: ... }): the agent of the n-th construction.
AtpAgent(n) == [agent |-> n, service |-> "https://public.api.bsky.app"]

AgentUnchanged ==
    UNCHANGED <<replyVars, normVars, viewVars, wiringVars, fetchVars, heapVars>>

InitAgent ==
    /\ RepliesIdle /\ NormalizerIdle /\ ViewIdle /\ WiringIdle /\ FetchIdle
    /\ HeapIdle
    /\ AgentIdle

\* getAtpAgent() is called and runs to its first await or to its return:
\* with an agent at hand it returns it; otherwise it calls loadAtproto, which
\* returns the cached module or starts the dynamic import.
getAtpAgent(c) ==
    /\ agentCalls[c].pc = "idle"
    /\ c > 1 => agentCalls[c - 1].pc # "idle"
    /\ IF agentInstance # <<>>
       THEN /\ agentCalls' = [agentCalls EXCEPT ![c] = [pc |-> "done",
                                                        result |-> agentInstance]]
            /\ UNCHANGED importsStarted
       ELSE IF cachedModule # <<>>
       THEN /\ agentCalls' = [agentCalls EXCEPT ![c].pc = "moduleReady"]
            /\ UNCHANGED importsStarted
       ELSE /\ agentCalls' = [agentCalls EXCEPT ![c].pc = "importing"]
            /\ importsStarted' = importsStarted + 1
    /\ UNCHANGED <<cachedModule, agentInstance, agentsConstructed, loadCalls>>
    /\ AgentUnchanged

\* The import of a call fulfils: loadAtproto caches the module and returns it.
ImportFulfilled(c) ==
    /\ agentCalls[c].pc = "importing"
    /\ cachedModule' = <<TheModule>>
    /\ agentCalls' = [agentCalls EXCEPT ![c].pc = "moduleReady"]
    /\ UNCHANGED <<agentInstance, agentsConstructed, importsStarted, loadCalls>>
    /\ AgentUnchanged

\* The import of a call rejects: loadAtproto and getAtpAgent reject.
ImportRejected(c) ==
    /\ agentCalls[c].pc = "importing"
    /\ agentCalls' = [agentCalls EXCEPT ![c] = [pc |-> "done",
                                                result |-> Thrown("import failed")]]
    /\ UNCHANGED <<cachedModule, agentInstance, agentsConstructed, importsStarted,
                   loadCalls>>
    /\ AgentUnchanged

\* The await of loadAtproto ends: agentInstance = new AtpAgent(...) and the
\* call returns it.
AgentConstructed(c) ==
    /\ agentCalls[c].pc = "moduleReady"
    /\ agentsConstructed' = agentsConstructed + 1
    /\ agentInstance' = <<AtpAgent(agentsConstructed + 1)>>
    /\ agentCalls' = [agentCalls EXCEPT ![c] = [pc |-> "done",
                                                result |-> <<AtpAgent(agentsConstructed + 1)>>]]
    /\ UNCHANGED <<cachedModule, importsStarted, loadCalls>>
    /\ AgentUnchanged

\* loadAtproto() is called by a user of the module: it returns the cached
\* module or starts the dynamic import.
loadAtproto(d) ==
    /\ loadCalls[d].pc = "idle"
    /\ d > 1 => loadCalls[d - 1].pc # "idle"
    /\ IF cachedModule # <<>>
       THEN /\ loadCalls' = [loadCalls EXCEPT ![d] = [pc |-> "done",
                                                      result |-> cachedModule]]
            /\ UNCHANGED importsStarted
       ELSE /\ loadCalls' = [loadCalls EXCEPT ![d].pc = "importing"]
            /\ importsStarted' = importsStarted + 1
    /\ UNCHANGED <<cachedModule, agentInstance, agentsConstructed, agentCalls>>
    /\ AgentUnchanged

\* The import of a direct call fulfils: the module is cached and returned.
LoadFulfilled(d) ==
    /\ loadCalls[d].pc = "importing"
    /\ cachedModule' = <<TheModule>>
    /\ loadCalls' = [loadCalls EXCEPT ![d] = [pc |-> "done",
                                              result |-> <<TheModule>>]]
    /\ UNCHANGED <<agentInstance, agentsConstructed, importsStarted, agentCalls>>
    /\ AgentUnchanged

\* The import of a direct call rejects: nothing is cached.
LoadRejected(d) ==
    /\ loadCalls[d].pc = "importing"
    /\ loadCalls' = [loadCalls EXCEPT ![d] = [pc |-> "done",
                                              result |-> Thrown("import failed")]]
    /\ UNCHANGED <<cachedModule, agentInstance, agentsConstructed, importsStarted,
                   agentCalls>>
    /\ AgentUnchanged

NextAgent ==
    \/ \E c \in 1..MaxAgentCalls :
          \/ getAtpAgent(c)
          \/ ImportFulfilled(c)
          \/ ImportRejected(c)
          \/ AgentConstructed(c)
    \/ \E d \in 1..MaxLoadCalls :
          \/ loadAtproto(d)
          \/ LoadFulfilled(d)
          \/ LoadRejected(d)

SpecAgent == InitAgent /\ [][NextAgent]_vars

-----------------------------------------------------------------------------
(* The state machine of the two functions: one call of either, and a call   *)
(* of parseBlueskyUrl on what uriToUrl returned.                            *)

InitNormalizer == RepliesIdle /\ NormalizerIdle /\ ViewIdle /\ LaterIdle

\* parseBlueskyUrl(u)
Parse ==
    /\ npc = "idle"
    /\ \E u \in WebInputs \cup UriInputs \cup TokenStrings(MaxTokens) :
          /\ url' = u
          /\ parsed' = parseBlueskyUrl(u)
    /\ npc' = "parsed"
    /\ UNCHANGED <<uri, handle, webUrl>>
    /\ UNCHANGED <<replyVars, viewVars, laterVars>>

\* uriToUrl(u, h)
Convert ==
    /\ npc = "idle"
    /\ \E u \in UriInputs \cup WebInputs \cup TokenStrings(MaxTokens), h \in HandleInputs :
          /\ uri' = u
          /\ handle' = h
          /\ webUrl' = uriToUrl(u, h)
    /\ npc' = "converted"
    /\ UNCHANGED <<url, parsed>>
    /\ UNCHANGED <<replyVars, viewVars, laterVars>>

\* parseBlueskyUrl(uriToUrl(u, h))
ParseConverted ==
    /\ npc = "converted"
    /\ url' = webUrl
    /\ parsed' = parseBlueskyUrl(webUrl)
    /\ npc' = "reparsed"
    /\ UNCHANGED <<uri, handle, webUrl>>
    /\ UNCHANGED <<replyVars, viewVars, laterVars>>

NextNormalizer == Parse \/ Convert \/ ParseConverted

SpecNormalizer == InitNormalizer /\ [][NextNormalizer]_vars

-----------------------------------------------------------------------------
(* The state machine: a caller picks a thread and calls processReplies *)

\* Before the first call no argument has been passed and nothing was returned.
Init ==
    /\ \/ \E shape \in Shapes :
             \E kinds \in [1..ShapeSize(shape) -> NodeKinds] :
                /\ WellFormed(shape, kinds)
                /\ replies = RawForest(shape, kinds, 0, <<>>)
       \/ replies = AbsentReplies
    /\ parentAuthorDid = Undefined
    /\ depth = 0
    /\ options = [flattenSameAuthorThreads |-> <<>>]
    /\ result = <<>>
    /\ pc = "ready"
    /\ NormalizerIdle
    /\ ViewIdle
    /\ LaterIdle

\* processReplies(replies, p, d, o)
Call ==
    /\ pc = "ready"
    /\ \E p \in ParentDids, d \in Depths, o \in OptionsSet :
          /\ parentAuthorDid' = p
          /\ depth' = d
          /\ options' = o
          /\ result' = processReplies(replies, p, d, o)
    /\ pc' = "done"
    /\ UNCHANGED replies
    /\ UNCHANGED <<normVars, viewVars, laterVars>>

Next == Call

Spec == Init /\ [][Next]_vars

-----------------------------------------------------------------------------
(* processReplies on the heap.  Every object and every array of the raw     *)
(* thread and of the result has an address; a field that holds an object    *)
(* holds its address.  Each object literal, array literal and spread of the *)
(* code allocates; each assignment to a field or sort of an array writes at *)
(* an address.  Scalar fields (strings and numbers) are copied by value.    *)

\* A new object: the heap with it, and its address.
Alloc(h, obj) == [heap |-> Append(h, obj), at |-> Len(h) + 1]

RECURSIVE LoadArray(_, _)
RECURSIVE LoadNodes(_, _, _, _)

\* One raw node put on the heap: a placeholder, or a thread-view post with
\* its author, its post and its replies array.
LoadNode(h, node) ==
    IF ~isThreadViewPost(node) THEN Alloc(h, node)
    ELSE LET author == Alloc(h, node.post.author)
             rawPost == Alloc(author.heap, [node.post EXCEPT !.author = author.at])
             rs == LoadArray(rawPost.heap, node.replies)
         IN  Alloc(rs.heap, [type |-> node.type, post |-> rawPost.at,
                             replies |-> rs.at])

LoadNodes(h, forest, i, ats) ==
    IF i > Len(forest) THEN [heap |-> h, ats |-> ats]
    ELSE LET n == LoadNode(h, forest[i])
         IN  LoadNodes(n.heap, forest, i + 1, Append(ats, n.at))

\* A raw replies array put on the heap, its nodes first.
LoadArray(h, forest) ==
    LET ns == LoadNodes(h, forest, 1, <<>>)
    IN  Alloc(ns.heap, [items |-> ns.ats])

\* The raw thread an address holds, read back as a value.
RECURSIVE ReadRaw(_, _)
ReadRaw(h, at) ==
    [i \in 1..Len(h[at].items) |->
        LET node == h[h[at].items[i]]
        IN  IF ~isThreadViewPost(node) THEN node
            ELSE [type |-> node.type,
                  post |-> [h[node.post] EXCEPT !.author = h[h[node.post].author]],
                  replies |-> ReadRaw(h, node.replies)]]

\* The comments an address holds, read back as a value.
RECURSIVE ReadComments(_, _)
ReadComments(h, at) ==
    [i \in 1..Len(h[at].items) |->
        LET comment == h[h[at].items[i]]
        IN  [comment EXCEPT !.author = h[comment.author],
                            !.replies = ReadComments(h, comment.replies)]]

\* Mutant: author: author, the raw author object itself.
CommentAuthorShared(h, author) == [heap |-> h, at |-> author]

\* author: { did: author.did, handle: ..., displayName: ..., avatar: ... }
CommentAuthorAt(h, author) == Alloc(h, [did |-> h[author].did])

\* The comment object literal: it allocates the author object, the empty
\* replies array and the comment.
MakeCommentAt(h, reply, parentDid, d) ==
    LET rawPost == h[h[reply].post]
        author == CommentAuthorAt(h, rawPost.author)
        empty == Alloc(author.heap, [items |-> <<>>])
    IN  Alloc(empty.heap,
              [id |-> rawPost.cid,
               author |-> author.at,
               likeCount |-> rawPost.likeCount,
               replyCount |-> rawPost.replyCount,
               repostCount |-> rawPost.repostCount,
               depth |-> d,
               replies |-> empty.at,
               parentAuthorDid |-> parentDid])

\* The partition loop from the i-th nested reply on: a continuation is
\* pushed as a spread copy (a new object with the fields of nestedReply, its
\* author and replies references included), another reply is pushed as it is.
RECURSIVE PartitionAt(_, _, _, _, _, _, _)
PartitionAt(h, nested, i, authorDid, d, continuations, nestedUnderComment) ==
    IF i > Len(nested)
    THEN [heap |-> h, continuations |-> continuations,
          nestedUnderComment |-> nestedUnderComment]
    ELSE IF h[h[nested[i]].author].did = authorDid
    THEN LET copy == Alloc(h, [h[nested[i]] EXCEPT !.depth = d,
                                                  !.parentAuthorDid = authorDid])
         IN  PartitionAt(copy.heap, nested, i + 1, authorDid, d,
                         Append(continuations, copy.at), nestedUnderComment)
    ELSE PartitionAt(h, nested, i + 1, authorDid, d,
                     continuations, Append(nestedUnderComment, nested[i]))

RECURSIVE processRepliesAt(_, _, _, _, _)

\* One iteration of the for loop on a valid reply: the heap after it and
\* the address of the group it pushes.
GroupAt(h, reply, parentDid, d, opts) ==
    LET comment == MakeCommentAt(h, reply, parentDid, d)
        authorDid == h[h[h[reply].post].author].did
    IN  IF Len(h[h[reply].replies].items) > 0
        THEN LET nestedReplies ==
                    processRepliesAt(comment.heap, <<h[reply].replies>>,
                                     authorDid, d + 1, opts)
             IN  IF FlattenOption(opts)
                 THEN LET continuations == Alloc(nestedReplies.heap, [items |-> <<>>])
                          nestedUnderComment ==
                              Alloc(continuations.heap, [items |-> <<>>])
                          loop == PartitionAt(nestedUnderComment.heap,
                                              nestedReplies.heap[nestedReplies.at].items,
                                              1, authorDid, d, <<>>, <<>>)
                      IN  Alloc([loop.heap EXCEPT
                                   ![continuations.at].items = loop.continuations,
                                   ![nestedUnderComment.at].items =
                                       loop.nestedUnderComment,
                                   ![comment.at].replies = nestedUnderComment.at],
                                [head |-> comment.at,
                                 continuations |-> continuations.at])
                 ELSE LET empty == Alloc(nestedReplies.heap, [items |-> <<>>])
                      IN  Alloc([empty.heap EXCEPT
                                   ![comment.at].replies = nestedReplies.at],
                                [head |-> comment.at, continuations |-> empty.at])
        ELSE LET empty == Alloc(comment.heap, [items |-> <<>>])
             IN  Alloc(empty.heap, [head |-> comment.at, continuations |-> empty.at])

\* The for loop from the i-th raw node on: the heap after it and the groups
\* pushed, by address.
RECURSIVE LoopAt(_, _, _, _, _, _, _)
LoopAt(h, items, i, groups, parentDid, d, opts) ==
    IF i > Len(items) THEN [heap |-> h, groups |-> groups]
    ELSE IF ~isThreadViewPost(h[items[i]])
    THEN LoopAt(h, items, i + 1, groups, parentDid, d, opts)
    ELSE LET g == GroupAt(h, items[i], parentDid, d, opts)
         IN  LoopAt(g.heap, items, i + 1, Append(groups, g.at), parentDid, d, opts)

ScoreAt(h, g) == h[h[g].head].likeCount + h[h[g].head].replyCount

\* The stable sort of the groups array, descending by score.
RECURSIVE InsertGroupAt(_, _, _)
InsertGroupAt(h, g, sorted) ==
    IF sorted = <<>> THEN <<g>>
    ELSE IF ScoreAt(h, Head(sorted)) >= ScoreAt(h, g)
         THEN <<Head(sorted)>> \o InsertGroupAt(h, g, Tail(sorted))
         ELSE <<g>> \o sorted

RECURSIVE SortGroupsAt(_, _)
SortGroupsAt(h, groups) ==
    IF groups = <<>> THEN <<>>
    ELSE InsertGroupAt(h, groups[Len(groups)],
                       SortGroupsAt(h, SubSeq(groups, 1, Len(groups) - 1)))

\* The items of groups.flatMap((g) => [g.head, ...g.continuations]).
RECURSIVE FlatMapGroupsAt(_, _)
FlatMapGroupsAt(h, groups) ==
    IF groups = <<>> THEN <<>>
    ELSE <<h[Head(groups)].head>> \o h[h[Head(groups)].continuations].items
         \o FlatMapGroupsAt(h, Tail(groups))

\* processReplies(replies, parentAuthorDid, depth, options) with replies a
\* reference (<<>> for undefined): the heap after the call and the address
\* of the returned array.  The groups array is allocated empty, filled by
\* the loop and sorted in place; the early return and flatMap allocate the
\* returned array.
processRepliesAt(h, rs, parentDid, d, opts) ==
    IF rs = <<>> \/ Len(h[rs[1]].items) = 0 THEN Alloc(h, [items |-> <<>>])
    ELSE LET groups == Alloc(h, [items |-> <<>>])
             loop == LoopAt(groups.heap, h[rs[1]].items, 1, <<>>, parentDid, d, opts)
             sorted == [loop.heap EXCEPT
                          ![groups.at].items = SortGroupsAt(loop.heap, loop.groups)]
         IN  Alloc(sorted, [items |-> FlatMapGroupsAt(sorted, sorted[groups.at].items)])

\* A caller holds a raw thread on the heap and nothing else.
InitHeap ==
    /\ \/ \E shape \in Shapes :
             \E kinds \in [1..ShapeSize(shape) -> NodeKinds] :
                /\ WellFormed(shape, kinds)
                /\ replies = RawForest(shape, kinds, 0, <<>>)
                /\ heap = LoadArray(<<>>, replies).heap
                /\ repliesAt = <<LoadArray(<<>>, replies).at>>
       \/ /\ replies = AbsentReplies
          /\ heap = <<>>
          /\ repliesAt = <<>>
    /\ returnedAt = <<>>
    /\ parentAuthorDid = Undefined
    /\ depth = 0
    /\ options = [flattenSameAuthorThreads |-> <<>>]
    /\ result = <<>>
    /\ pc = "ready"
    /\ NormalizerIdle /\ ViewIdle /\ WiringIdle /\ FetchIdle /\ AgentIdle

\* processReplies(replies, p, d, o) on the heap; replies and result are the
\* raw thread and the returned list as the heap holds them after the call.
CallAt ==
    /\ pc = "ready"
    /\ \E p \in ParentDids, d \in Depths, o \in OptionsSet :
          LET call == processRepliesAt(heap, repliesAt, p, d, o)
          IN  /\ parentAuthorDid' = p
              /\ depth' = d
              /\ options' = o
              /\ heap' = call.heap
              /\ returnedAt' = <<call.at>>
              /\ result' = ReadComments(call.heap, call.at)
              /\ replies' = IF repliesAt = <<>> THEN AbsentReplies
                            ELSE ReadRaw(call.heap, repliesAt[1])
    /\ pc' = "done"
    /\ UNCHANGED repliesAt
    /\ UNCHANGED <<normVars, viewVars, wiringVars, fetchVars, agentVars>>

NextHeap == CallAt

SpecHeap == InitHeap /\ [][NextHeap]_vars

-----------------------------------------------------------------------------
(* Vocabulary of the properties *)

Done == pc = "done"

\* The calls of processReplies a call makes, itself included: one record of
\* arguments per call (the options are the same in all of them).
RECURSIVE Calls(_, _, _)
Calls(rs, p, d) ==
    { [rs |-> rs, p |-> p, d |-> d] }
    \cup UNION { Calls(rs[i].replies, rs[i].post.author.did, d + 1) :
                   i \in { j \in 1..Len(rs) :
                             /\ isThreadViewPost(rs[j])
                             /\ Len(rs[j].replies) > 0 } }

AllCalls == Calls(replies, parentAuthorDid, depth)

TopCall == [rs |-> replies, p |-> parentAuthorDid, d |-> depth]

\* What a call returned: the top-level call returned result.
Returned(c) ==
    IF c = TopCall THEN result ELSE processReplies(c.rs, c.p, c.d, options)

\* The valid direct children of a call, in input order.
Children(c) == SelectSeq(c.rs, isThreadViewPost)

ChildIds(c) == { Children(c)[i].post.cid : i \in 1..Len(Children(c)) }

\* The recursively flattened replies of a valid child C of call c.
Nested(c, C) == processReplies(C.replies, C.post.author.did, c.d + 1, options)

IdsOf(list) == [i \in 1..Len(list) |-> list[i].id]

Positions(list, id) == { k \in 1..Len(list) : list[k].id = id }

\* The position of the comment built for child C in the list ret.
PosOf(ret, C) == CHOOSE k \in 1..Len(ret) : ret[k].id = C.post.cid

IsHead(c, x) == x.id \in ChildIds(c)

HeadScore(x) == x.likeCount + x.replyCount

\* The elements of ret after position k and before the next head.
RECURSIVE Followers(_, _, _)
Followers(c, ret, k) ==
    IF k + 1 > Len(ret) \/ IsHead(c, ret[k + 1]) THEN <<>>
    ELSE <<ret[k + 1]>> \o Followers(c, ret, k + 1)

\* The elements of a list by C's author, and the others, in list order.
ByAuthorOf(C, list) ==
    LET same(n) == n.author.did = C.post.author.did IN SelectSeq(list, same)

ByOthers(C, list) ==
    LET other(n) == n.author.did # C.post.author.did IN SelectSeq(list, other)

\* The call flattens: flattenSameAuthorThreads is true, or omitted (its
\* documented default is true).
Flattening == options.flattenSameAuthorThreads # <<FALSE>>

-----------------------------------------------------------------------------
(* C1 *)

\* In call c with flattening on, the comment of child C keeps exactly the
\* nested replies by other authors, and every nested reply by C's author is
\* in the returned list and not under C.
PartitionedAt(c, C) ==
    LET ret == Returned(c)
        nested == Nested(c, C)
    IN  /\ Cardinality(Positions(ret, C.post.cid)) = 1
        /\ ret[PosOf(ret, C)].replies = ByOthers(C, nested)
        /\ \A j \in 1..Len(nested) :
              nested[j].author.did = C.post.author.did
              => /\ Positions(ret, nested[j].id) # {}
                 /\ Positions(ret[PosOf(ret, C)].replies, nested[j].id) = {}

\* C1: with flattenSameAuthorThreads true, for every valid direct child C of
\* every call, the recursively flattened replies of C by C's author are
\* removed from C.replies and are siblings of C in the returned list, and
\* C.replies is exactly the recursively flattened replies by other authors.
C1_SameAuthorPartition ==
    (Done /\ Flattening)
    => \A c \in AllCalls :
         \A i \in 1..Len(Children(c)) : PartitionedAt(c, Children(c)[i])

\* A finished call with flattening on where a child of the top-level call has
\* both a nested reply by its own author and one by another author.
C1_Witness ==
    /\ Done /\ Flattening
    /\ \E i \in 1..Len(Children(TopCall)) :
          LET C == Children(TopCall)[i]
          IN  /\ ByAuthorOf(C, Nested(TopCall, C)) # <<>>
              /\ ByOthers(C, Nested(TopCall, C)) # <<>>
              /\ result[PosOf(result, C)].replies # <<>>

-----------------------------------------------------------------------------
(* C2 *)

\* The heads of a returned list, in list order.
HeadsOf(c, ret) == LET head(x) == IsHead(c, x) IN SelectSeq(ret, head)

NonIncreasing(heads) ==
    \A i \in 1..Len(heads) : \A j \in i..Len(heads) :
        HeadScore(heads[i]) >= HeadScore(heads[j])

\* The same thread with every repostCount set to 0.
RECURSIVE WithoutReposts(_)
WithoutReposts(rs) ==
    [i \in 1..Len(rs) |->
        IF isThreadViewPost(rs[i])
        THEN [rs[i] EXCEPT !.post.repostCount = 0,
                           !.replies = WithoutReposts(rs[i].replies)]
        ELSE rs[i]]

\* C2: in the list returned by every call the group heads are in
\* non-increasing order of likeCount + replyCount, and the order of the
\* returned list is the one the same thread gets with all repostCounts 0.
C2_HeadsSortedByEngagement ==
    Done
    => /\ \A c \in AllCalls : NonIncreasing(HeadsOf(c, Returned(c)))
       /\ IdsOf(result)
            = IdsOf(processReplies(WithoutReposts(replies), parentAuthorDid,
                                   depth, options))

\* A finished call that moved a head in front of an earlier one, over a head
\* whose only count is its repostCount.
C2_Witness ==
    /\ Done
    /\ Len(Children(TopCall)) >= 2
    /\ \E i, j \in 1..Len(result) :
          /\ i < j
          /\ IsHead(TopCall, result[i]) /\ IsHead(TopCall, result[j])
          /\ HeadScore(result[i]) > HeadScore(result[j])
          /\ result[j].repostCount > 0
          /\ \E a, b \in 1..Len(Children(TopCall)) :
                /\ a < b
                /\ Children(TopCall)[a].post.cid = result[j].id
                /\ Children(TopCall)[b].post.cid = result[i].id

-----------------------------------------------------------------------------
(* C3 *)

\* C3: with flattenSameAuthorThreads false, every call returns exactly one
\* element per valid direct child, and the replies of the element of child C
\* are the list processReplies returns for C's raw replies at depth + 1.
C3_DisabledKeepsNesting ==
    (Done /\ ~Flattening)
    => \A c \in AllCalls :
         LET ret == Returned(c)
         IN  /\ Len(ret) = Len(Children(c))
             /\ \A i \in 1..Len(Children(c)) :
                   LET C == Children(c)[i]
                   IN  /\ Cardinality(Positions(ret, C.post.cid)) = 1
                       /\ ret[PosOf(ret, C)].replies = Nested(c, C)

\* A finished call with flattening off where a reply by the same author as
\* its parent stayed nested under it.
C3_Witness ==
    /\ Done /\ ~Flattening
    /\ \E k \in 1..Len(result) :
          \E j \in 1..Len(result[k].replies) :
             result[k].replies[j].author.did = result[k].author.did

-----------------------------------------------------------------------------
(* C4 *)

\* The continuations call c promotes out of the nested replies of child C.
ExpectedContinuations(c, C) ==
    IF Flattening THEN ByAuthorOf(C, Nested(c, C)) ELSE <<>>

\* C4: in the list returned by every call, the first element is a head and
\* each head is followed, up to the next head, by exactly its promoted
\* continuations in the order the recursive call returned them.
C4_GroupsContiguous ==
    Done
    => \A c \in AllCalls :
         LET ret == Returned(c)
         IN  /\ ret # <<>> => IsHead(c, ret[1])
             /\ \A i \in 1..Len(Children(c)) :
                   LET C == Children(c)[i]
                   IN  /\ Cardinality(Positions(ret, C.post.cid)) = 1
                       /\ IdsOf(Followers(c, ret, PosOf(ret, C)))
                            = IdsOf(ExpectedContinuations(c, C))

\* A finished call whose list holds a head, a continuation of it, and then
\* a head that outscores the continuation.
C4_Witness ==
    /\ Done
    /\ \E k \in 1..Len(result) :
          /\ k + 2 <= Len(result)
          /\ IsHead(TopCall, result[k])
          /\ ~IsHead(TopCall, result[k + 1])
          /\ IsHead(TopCall, result[k + 2])
          /\ HeadScore(result[k + 2]) > HeadScore(result[k + 1])

-----------------------------------------------------------------------------
(* C5 *)

\* The thread without its placeholders, at every level.
RECURSIVE OnlyPosts(_)
OnlyPosts(rs) ==
    LET posts == SelectSeq(rs, isThreadViewPost)
    IN  [i \in 1..Len(posts) |->
            [posts[i] EXCEPT !.replies = OnlyPosts(posts[i].replies)]]

\* The cids of the posts of a thread.
RECURSIVE PostCids(_)
PostCids(rs) ==
    UNION { IF isThreadViewPost(rs[i])
            THEN { rs[i].post.cid } \cup PostCids(rs[i].replies)
            ELSE {} : i \in 1..Len(rs) }

\* The ids of the comments of a returned structure, nested ones included.
RECURSIVE CommentIds(_)
CommentIds(list) ==
    UNION { { list[i].id } \cup CommentIds(list[i].replies) : i \in 1..Len(list) }

\* C5: the returned list is the one the same thread gets with every node that
\* is no thread-view post taken out, and it holds a comment for posts only.
C5_InvalidNodesSkipped ==
    Done
    => /\ result = processReplies(OnlyPosts(replies), parentAuthorDid, depth, options)
       /\ CommentIds(result) \subseteq PostCids(replies)

\* A finished call on a thread with a placeholder between two posts, both of
\* which are in the returned list.
C5_Witness ==
    /\ Done
    /\ \E i \in 2..(Len(replies) - 1) :
          /\ ~isThreadViewPost(replies[i])
          /\ isThreadViewPost(replies[i - 1]) /\ isThreadViewPost(replies[i + 1])
          /\ Positions(result, replies[i - 1].post.cid) # {}
          /\ Positions(result, replies[i + 1].post.cid) # {}
    /\ Len(result) < Len(replies)

-----------------------------------------------------------------------------
(* C6 *)

\* The posts and placeholders below the nodes of rs, the nodes included.
RECURSIVE NodesOf(_)
NodesOf(rs) ==
    UNION { { rs[i] } \cup (IF isThreadViewPost(rs[i]) THEN NodesOf(rs[i].replies)
                            ELSE {}) : i \in 1..Len(rs) }

\* The whole reply subtree of post C is made of posts by C's author.
OwnRun(C) ==
    \A n \in NodesOf(C.replies) :
        isThreadViewPost(n) /\ n.post.author.did = C.post.author.did

\* C6: with flattening on, a child C of a call whose whole reply subtree is by
\* C's author is returned followed by every one of its descendants, each once,
\* all at the call's depth and all, C included, with empty replies.
C6_TransitivePromotion ==
    (Done /\ Flattening)
    => \A c \in AllCalls :
         \A i \in 1..Len(Children(c)) :
            LET C == Children(c)[i]
                ret == Returned(c)
                run == Followers(c, ret, PosOf(ret, C))
            IN  OwnRun(C)
                => /\ ret[PosOf(ret, C)].replies = <<>>
                   /\ { run[k].id : k \in 1..Len(run) } = PostCids(C.replies)
                   /\ Len(run) = Cardinality(PostCids(C.replies))
                   /\ \A k \in 1..Len(run) :
                         run[k].replies = <<>> /\ run[k].depth = c.d

\* A finished call with flattening on that returned a post followed by its
\* reply and the reply to that reply, all three by one author.
C6_Witness ==
    /\ Done /\ Flattening
    /\ \E i \in 1..Len(Children(TopCall)) :
          LET C == Children(TopCall)[i]
          IN  /\ OwnRun(C)
              /\ \E j \in 1..Len(C.replies) : C.replies[j].replies # <<>>
              /\ Len(Followers(TopCall, result, PosOf(result, C))) >= 2

-----------------------------------------------------------------------------
(* C7 *)

\* C7: every element of the list returned by a call with depth d has depth d,
\* with flattening on and off.
C7_ReturnedDepth ==
    Done
    => \A c \in AllCalls :
         \A k \in 1..Len(Returned(c)) : Returned(c)[k].depth = c.d

\* A finished call whose list holds a continuation that the recursive call
\* had itself received from a deeper call.
C7_Witness ==
    /\ Done
    /\ \E i \in 1..Len(Children(TopCall)) :
          LET C == Children(TopCall)[i]
          IN  \E k \in 1..Len(result) :
                 /\ ~IsHead(TopCall, result[k])
                 /\ result[k].depth = depth
                 /\ \E j \in 1..Len(C.replies) :
                       /\ isThreadViewPost(C.replies[j])
                       /\ result[k].id \in PostCids(C.replies[j].replies)

-----------------------------------------------------------------------------
(* C8 *)

\* C8: in every call, two children with equal likeCount + replyCount have
\* their heads in the returned list in the order of the input array.
C8_StableSort ==
    Done
    => \A c \in AllCalls :
         LET ret == Returned(c)
             kids == Children(c)
         IN  \A i, j \in 1..Len(kids) :
                (/\ i < j
                 /\ kids[i].post.likeCount + kids[i].post.replyCount
                      = kids[j].post.likeCount + kids[j].post.replyCount)
                => /\ Positions(ret, kids[i].post.cid) # {}
                   /\ Positions(ret, kids[j].post.cid) # {}
                   /\ PosOf(ret, kids[i]) < PosOf(ret, kids[j])

\* A finished call on three posts: the first two tie, the second with more
\* reposts, and the third outscores them and was moved to the front.
C8_Witness ==
    /\ Done
    /\ Len(Children(TopCall)) = 3
    /\ LET kids == Children(TopCall)
       IN  /\ kids[1].post.likeCount + kids[1].post.replyCount
                = kids[2].post.likeCount + kids[2].post.replyCount
           /\ kids[1].post.repostCount < kids[2].post.repostCount
           /\ IdsOf(result) = <<kids[3].post.cid, kids[1].post.cid, kids[2].post.cid>>

-----------------------------------------------------------------------------
(* C9 *)

\* C9: in the list returned by every call, a head has the parentAuthorDid the
\* call was given, and a continuation has the author DID of the head it
\* follows, which is its own author DID.
C9_ParentAuthorDid ==
    Done
    => \A c \in AllCalls :
         LET ret == Returned(c)
         IN  /\ \A k \in 1..Len(ret) :
                   IsHead(c, ret[k]) => ret[k].parentAuthorDid = c.p
             /\ \A i \in 1..Len(Children(c)) :
                   LET C == Children(c)[i]
                       run == Followers(c, ret, PosOf(ret, C))
                   IN  \A k \in 1..Len(run) :
                          /\ run[k].parentAuthorDid = C.post.author.did
                          /\ run[k].parentAuthorDid = run[k].author.did

\* A finished call that returned a head whose author is not the call's
\* parentAuthorDid, followed by a continuation.
C9_Witness ==
    /\ Done
    /\ \E k \in 1..Len(result) :
          /\ k + 1 <= Len(result)
          /\ IsHead(TopCall, result[k])
          /\ result[k].author.did # parentAuthorDid
          /\ result[k].parentAuthorDid = parentAuthorDid
          /\ ~IsHead(TopCall, result[k + 1])
          /\ result[k + 1].parentAuthorDid = result[k].author.did

-----------------------------------------------------------------------------
(* C10 *)

\* The number of reply groups a call forms: one per valid direct child.
GroupCount(c) == Len(Children(c))

\* The number of continuations a call promotes, over all its groups.
PromotedCount(c) ==
    SumSeq([i \in 1..Len(Children(c)) |->
                Len(ExpectedContinuations(c, Children(c)[i]))])

\* C10 as stated: the length of the list a call returns is the number of
\* reply groups formed at that level.
C10_LengthIsGroupCount ==
    Done => \A c \in AllCalls : Len(Returned(c)) = GroupCount(c)

\* C10, amended: the length of the list a call returns is the number of reply
\* groups formed at that level plus the number of continuations promoted into
\* them; with flattening off it is the number of groups.
C10_LengthIsGroupsPlusContinuations ==
    Done
    => \A c \in AllCalls :
         /\ Len(Returned(c)) = GroupCount(c) + PromotedCount(c)
         /\ ~Flattening => Len(Returned(c)) = GroupCount(c)

\* A finished call that formed two groups, one of them with a continuation.
C10_Witness ==
    /\ Done
    /\ GroupCount(TopCall) = 2
    /\ PromotedCount(TopCall) = 1
    /\ Len(result) = 3

-----------------------------------------------------------------------------
(* C11 *)

\* The cids of the descendants of post C that are by C's author and hang
\* under C through posts by that author only.
RECURSIVE OwnChainCids(_, _)
OwnChainCids(rs, did) ==
    UNION { IF isThreadViewPost(rs[i]) /\ rs[i].post.author.did = did
            THEN { rs[i].post.cid } \cup OwnChainCids(rs[i].replies, did)
            ELSE {} : i \in 1..Len(rs) }

\* The child of call c whose head is the last head at or before position k.
HeadBefore(c, ret, k) ==
    LET j == CHOOSE h \in 1..k :
                /\ IsHead(c, ret[h])
                /\ \A m \in (h + 1)..k : ~IsHead(c, ret[m])
    IN  CHOOSE i \in 1..Len(Children(c)) : Children(c)[i].post.cid = ret[j].id

\* C11: every element of the list a call returns is a valid direct child of
\* the call, or a descendant of the head it follows, by the head's author and
\* under the head through replies by that author only; and a direct child by
\* the call's parentAuthorDid is returned once, as a head at the call's depth.
C11_PromotionScoped ==
    Done
    => \A c \in AllCalls :
         LET ret == Returned(c)
         IN  /\ ret # <<>> => IsHead(c, ret[1])
             /\ \A k \in 1..Len(ret) :
                   \/ IsHead(c, ret[k])
                   \/ LET C == Children(c)[HeadBefore(c, ret, k)]
                      IN  /\ ret[k].author.did = C.post.author.did
                          /\ ret[k].id \in OwnChainCids(C.replies, C.post.author.did)
             /\ \A i \in 1..Len(Children(c)) :
                   LET C == Children(c)[i]
                   IN  C.post.author.did = c.p
                       => /\ Cardinality(Positions(ret, C.post.cid)) = 1
                          /\ ret[PosOf(ret, C)].depth = c.d
                          /\ ret[PosOf(ret, C)].parentAuthorDid = c.p
                          /\ CommentIds(ret[PosOf(ret, C)].replies)
                               \cap ChildIds(c) = {}

\* A finished flattening call whose parentAuthorDid is the author of a child:
\* the child is a head of the list, followed by a reply to one of its replies.
C11_Witness ==
    /\ Done /\ Flattening
    /\ \E i \in 1..Len(Children(TopCall)) :
          LET C == Children(TopCall)[i]
              run == Followers(TopCall, result, PosOf(result, C))
          IN  /\ C.post.author.did = parentAuthorDid
              /\ result[PosOf(result, C)].depth = depth
              /\ \E k \in 1..Len(run) :
                    run[k].id \notin { C.replies[j].post.cid :
                                         j \in { m \in 1..Len(C.replies) :
                                                   isThreadViewPost(C.replies[m]) } }

-----------------------------------------------------------------------------
(* C12 *)

\* The options carry no flattenSameAuthorThreads: the argument was omitted
\* (the parameter's default is {}), or is {}, or has the field undefined.
OptionOmitted == options.flattenSameAuthorThreads = <<>>

\* C12: a call without flattenSameAuthorThreads returns what the call with
\* flattenSameAuthorThreads true returns on the same thread.
C12_DefaultIsTrue ==
    (Done /\ OptionOmitted)
    => result = processReplies(replies, parentAuthorDid, depth,
                               [flattenSameAuthorThreads |-> <<TRUE>>])

\* A finished call without the option on a thread where the option matters:
\* the call with the option false returns another list.
C12_Witness ==
    /\ Done /\ OptionOmitted
    /\ Len(result) > Len(Children(TopCall))
    /\ result # processReplies(replies, parentAuthorDid, depth,
                               [flattenSameAuthorThreads |-> <<FALSE>>])

-----------------------------------------------------------------------------
(* C13 *)

\* C13: a call whose replies argument is undefined or the empty array returns
\* the empty list and makes no recursive call, whatever its other arguments.
C13_EmptyInput ==
    (Done /\ (replies = AbsentReplies \/ replies = <<>>))
    => /\ result = <<>>
       /\ AllCalls = { TopCall }

\* A finished call on undefined replies with a parentAuthorDid, a depth
\* other than 0 and the option false.
C13_Witness ==
    /\ Done
    /\ replies = AbsentReplies
    /\ parentAuthorDid # Undefined /\ depth > 0
    /\ options.flattenSameAuthorThreads = <<FALSE>>
    /\ result = <<>>

-----------------------------------------------------------------------------
(* C14 *)

\* The addresses a returned array leads to: the array, its comments, their
\* author objects and replies arrays, at every level.
RECURSIVE ReachableFrom(_, _)
ReachableFrom(h, at) ==
    {at} \cup UNION { {h[at].items[i], h[h[at].items[i]].author}
                      \cup ReachableFrom(h, h[h[at].items[i]].replies) :
                      i \in 1..Len(h[at].items) }

\* C14: a call, with either option, leaves every object of the raw thread as
\* it was (each replies array with its nodes in their order, each node, post
\* and author), so the thread read back after the call is the thread passed;
\* and nothing the returned array leads to (the array, a comment, an author
\* object, a replies array) is an object of the raw thread: all of it was
\* allocated by the call.
C14_InputUnchanged ==
    [][pc = "ready" /\ pc' = "done"
       => /\ \A a \in 1..Len(heap) : heap'[a] = heap[a]
          /\ replies' = replies
          /\ ReachableFrom(heap', returnedAt'[1]) \cap (1..Len(heap)) = {}]_vars

\* The list read back from the heap is the list of the function on values.
processRepliesAtAgrees ==
    Done => result = processReplies(replies, parentAuthorDid, depth, options)

\* A finished call on two posts that returned the second one first, with a
\* promoted continuation after it: the raw array still has its order.
C14_Witness ==
    /\ Done
    /\ returnedAt # <<>>
    /\ Len(replies) = 2
    /\ Len(result) = 3
    /\ result[1].id = replies[2].post.cid
    /\ result[2].id = replies[2].replies[1].post.cid
    /\ result[3].id = replies[1].post.cid
    /\ ReadRaw(heap, repliesAt[1]) = replies

-----------------------------------------------------------------------------
(* Vocabulary of the properties of parseBlueskyUrl and uriToUrl *)

Parsed == npc = "parsed"

Converted == npc = "converted"

Reparsed == npc = "reparsed"

NoneOf(str, chars) == \A k \in 1..Len(str) : str[k] \notin chars

\* The string s reads lit from position i on.
Reads(s, i, lit) ==
    /\ i + Len(lit) - 1 <= Len(s)
    /\ \A k \in 1..Len(lit) : s[i + k - 1] = lit[k]

\* The positions after a head of heads that s reads from position i on.
AfterHead(s, i, heads) == { i + Len(h) : h \in { g \in heads : Reads(s, i, g) } }

\* The pairs <<a, b>> such that s reads, from position p on, a, then mid,
\* then b, where a is not empty and has no "/", b is not empty and has no
\* token of stop, and b ends where s ends or a token of stop follows.
TwoParts(s, p, mid, stop) ==
    { <<SubSeq(s, p, p + nm[1] - 1),
        SubSeq(s, p + nm[1] + Len(mid), p + nm[1] + Len(mid) + nm[2] - 1)>> :
        nm \in { x \in (1..Len(s)) \X (1..Len(s)) :
                   LET q == p + x[1] + Len(mid)
                   IN  /\ Reads(s, p + x[1], mid)
                       /\ NoneOf(SubSeq(s, p, p + x[1] - 1), {"/"})
                       /\ q + x[2] - 1 <= Len(s)
                       /\ NoneOf(SubSeq(s, q, q + x[2] - 1), stop)
                       /\ q + x[2] <= Len(s) => s[q + x[2]] \in stop } }

WebHeads ==
    { <<"http", ":", "/", "/", "bsky.app", "/", "profile", "/">>,
      <<"http", "s", ":", "/", "/", "bsky.app", "/", "profile", "/">> }

\* The <<identifier, rkey>> of the post URLs s holds from position i on:
\* http or https, ://bsky.app/profile/, an identifier without "/", /post/,
\* and an rkey that runs up to the first "/", "?" or "#".
WebUrlsAt(s, i) ==
    UNION { TwoParts(s, p, <<"/", "post", "/">>, {"/", "?", "#"}) :
              p \in AfterHead(s, i, WebHeads) }

WebUrlStarts(s) == { i \in 1..Len(s) : WebUrlsAt(s, i) # {} }

First(starts) == CHOOSE i \in starts : \A j \in starts : i <= j

-----------------------------------------------------------------------------
(* C15 *)

\* C15: parseBlueskyUrl returns, for a string that holds a post URL
\* (http or https, ://bsky.app/profile/<identifier>/post/<rkey>), the
\* identifier and the rkey of the first one, the identifier without "/" and
\* the rkey ending before the first "/", "?" or "#"; for every other string
\* it returns null.
C15_ParseReturnsCaptures ==
    (Parsed \/ Reparsed)
    => LET starts == WebUrlStarts(url)
       IN  IF starts = {} THEN parsed = Null
           ELSE /\ parsed # Null
                /\ <<parsed.identifier, parsed.rkey>> \in WebUrlsAt(url, First(starts))
                /\ NoneOf(parsed.identifier, {"/"})
                /\ NoneOf(parsed.rkey, {"/", "?", "#"})

\* A call that returned an identifier of several tokens and an rkey that
\* stops at a "?", from a string that has text before the URL.
C15_Witness ==
    /\ Parsed
    /\ parsed # Null
    /\ Len(parsed.identifier) > 1
    /\ url[1] = "x"
    /\ \E k \in 1..Len(url) : url[k] = "?" /\ k > Len(url) - 2

\* A call that returned null for a string with the shape of a post URL on
\* another host.
C15_WitnessNull ==
    /\ Parsed
    /\ parsed = Null
    /\ \E k \in 1..Len(url) : url[k] = "example.com"

-----------------------------------------------------------------------------
(* C16 *)

\* The <<did, rkey>> of the feed-post URIs s holds from position i on: at://,
\* a DID without "/", /app.bsky.feed.post/, and an rkey that runs up to the
\* first "/", "?" or "#".
FeedPostUrisAt(s, i) ==
    UNION { TwoParts(s, p, <<"/", "app.bsky.feed.post", "/">>, {"/", "?", "#"}) :
              p \in AfterHead(s, i, { <<"at", ":", "/", "/">> }) }

FeedPostUriStarts(s) == { i \in 1..Len(s) : FeedPostUrisAt(s, i) # {} }

\* The <<did, rkey>> of the first feed-post URI s holds: a set of one pair,
\* or the empty set when s holds none.
FirstFeedPostUri(s) ==
    LET starts == FeedPostUriStarts(s)
    IN  IF starts = {} THEN {} ELSE FeedPostUrisAt(s, First(starts))

PostUrlOf(id, rk) ==
    <<"http", "s", ":", "/", "/", "bsky.app", "/", "profile", "/">> \o id
      \o <<"/", "post", "/">> \o rk

HandleGiven == handle # <<>>

\* C16 as stated: for a URI that holds a feed-post URI, uriToUrl returns the
\* post URL of its DID and rkey when no handle is passed, and the post URL
\* of the handle and the rkey for every handle that is passed.
C16_HandleAlwaysReplacesDid ==
    Converted
    => \A dr \in FirstFeedPostUri(uri) :
          webUrl = PostUrlOf(IF HandleGiven THEN handle[1] ELSE dr[1], dr[2])

\* C16: for a URI that holds a feed-post URI, uriToUrl returns the post URL
\* of its DID and rkey when no handle or the empty string is passed, and the
\* post URL of the handle and the rkey for every non-empty handle.
C16_NonEmptyHandleReplacesDid ==
    Converted
    => \A dr \in FirstFeedPostUri(uri) :
          webUrl = PostUrlOf(IF HandleGiven /\ handle[1] # <<>>
                             THEN handle[1] ELSE dr[1], dr[2])

\* A call with a handle that returned the URL of the handle, for a URI whose
\* DID is another string.
C16_Witness ==
    /\ Converted
    /\ handle = << <<"alice.test">> >>
    /\ \E dr \in FirstFeedPostUri(uri) :
          /\ dr[1] = <<"did", ":", "abc">>
          /\ webUrl = PostUrlOf(<<"alice.test">>, dr[2])

-----------------------------------------------------------------------------
(* C17 *)

\* C17: uriToUrl returns the empty string for every string that holds no
\* feed-post URI (at://<did>/app.bsky.feed.post/<rkey>), with or without a
\* handle.
C17_NoMatchGivesEmpty ==
    Converted /\ FirstFeedPostUri(uri) = {} => webUrl = <<>>

\* A call with a handle, for an at:// URI with an rkey whose collection is
\* app.bsky.feed.like, that returned the empty string.
C17_Witness ==
    /\ Converted
    /\ handle = << <<"alice.test">> >>
    /\ uri = <<"at", ":", "/", "/", "did", ":", "abc", "/",
               "app.bsky.feed.like", "/", "rk">>
    /\ webUrl = <<>>

-----------------------------------------------------------------------------
(* C18 *)

HasSlash(str) == \E k \in 1..Len(str) : str[k] = "/"

\* C18 as stated: for a URI that holds a feed-post URI and every handle,
\* parseBlueskyUrl(uriToUrl(uri, handle)) is not null and its rkey is the
\* rkey of the URI.
C18_RoundTripAnyHandle ==
    Reparsed
    => \A dr \in FirstFeedPostUri(uri) :
          /\ parsed # Null
          /\ parsed.rkey = dr[2]

\* C18: for a URI that holds a feed-post URI and every handle without "/"
\* (an omitted handle included), parseBlueskyUrl(uriToUrl(uri, handle)) is
\* not null and its rkey is the rkey of the URI.
C18_RoundTripSlashFreeHandle ==
    Reparsed /\ (HandleGiven => ~HasSlash(handle[1]))
    => \A dr \in FirstFeedPostUri(uri) :
          /\ parsed # Null
          /\ parsed.rkey = dr[2]

\* A round trip with a handle of several tokens that gave back an rkey of
\* several tokens, from a URI that goes on after the rkey.
C18_Witness ==
    /\ Reparsed
    /\ handle = << <<"a", "?", "b">> >>
    /\ parsed # Null
    /\ parsed.rkey = <<"rk", ":", "1">>
    /\ \E dr \in FirstFeedPostUri(uri) : dr[2] = parsed.rkey
    /\ uri[Len(uri)] = "q"

-----------------------------------------------------------------------------
(* C20 *)

\* What is on screen: the entries the list branch of the template iterates
\* over, and the "show more" control with the count in its label.
EntriesShown == IF ListRendered THEN visibleComments ELSE <<>>

ControlOffered == hasMoreComments

CountOnControl == remainingCount

\* The entries of comments that are not on screen.
EntriesHidden == Len(comments) - Len(EntriesShown)

\* The entries shown are the first n of the loaded list, in its order.
ShowsFirst(n) ==
    /\ Len(EntriesShown) = n
    /\ n <= Len(comments)
    /\ \A k \in 1..n : EntriesShown[k] = comments[k]

\* One state of the component with a list on screen: the first limit entries
\* (all when there are fewer) before "show more", every entry after it; the
\* control exactly when the list is longer than limit and "show more" has
\* not been triggered, and then beside the list, counting the hidden entries.
ViewAsDocumented ==
    /\ ListRendered /\ ~showAll
       => ShowsFirst(IF Len(comments) < limit THEN Len(comments) ELSE limit)
    /\ ListRendered /\ showAll => ShowsFirst(Len(comments))
    /\ ControlOffered <=> (Len(comments) > limit /\ ~showAll)
    /\ ControlOffered
       => /\ ListRendered
          /\ CountOnControl = Len(comments) - limit
          /\ CountOnControl = EntriesHidden

\* C20: the component shows the first limit entries of the list (limit is 5
\* when the prop is omitted) until "show more" is triggered and every entry
\* from then on, whatever is loaded or passed as limit afterwards; showAll is
\* false after setup, only a click on the offered control sets it, and it
\* never goes back to false; the control is offered exactly when the list is
\* longer than limit and "show more" has not been triggered, with the count
\* length - limit.
C20_ShowMoreIsFinal ==
    /\ ~showAll
    /\ []ViewAsDocumented
    /\ [][showAll => showAll']_vars
    /\ [][~showAll /\ showAll'
          => /\ ControlOffered
             /\ ~ControlOffered'
             /\ UNCHANGED <<comments, limit>>
             /\ EntriesShown' = comments]_vars

\* A list longer than the default limit, rendered in full after "show more",
\* with no control offered.
C20_Witness ==
    /\ ListRendered
    /\ limit = DefaultLimit
    /\ Len(comments) > DefaultLimit
    /\ showAll
    /\ Len(visibleComments) = Len(comments)
    /\ ~hasMoreComments

\* The same list before "show more": five entries shown, the control offered.
C20_WitnessTruncated ==
    /\ ListRendered
    /\ limit = DefaultLimit
    /\ Len(comments) = MaxComments
    /\ ~showAll
    /\ Len(visibleComments) = DefaultLimit
    /\ hasMoreComments
    /\ remainingCount = MaxComments - DefaultLimit

-----------------------------------------------------------------------------
(* C21 *)

Contains(list, x) == \E k \in 1..Len(list) : list[k] = x

\* C21 as stated: setup, handed a Nuxt object whose options hold only
\* build.transpile, completes without error, and has then registered the
\* components directory as global, registered the useBlueskyComments import
\* from the composable file and added "@atproto/api" to build.transpile.
C21_SetupCompletes ==
    [][ setupResult = "none" /\ nuxt.nitro = <<>>
        => /\ setupResult' = "resolved"
           /\ \E k \in 1..Len(componentsDirs') :
                 /\ componentsDirs'[k].path
                       = resolverBase \o <<"./runtime/components">>
                 /\ componentsDirs'[k].global
           /\ \E k \in 1..Len(imports') :
                 /\ imports'[k].name = "useBlueskyComments"
                 /\ imports'[k].from
                       = resolverBase \o <<"./runtime/composables/useBlueskyComments">>
           /\ Contains(nuxt'.build.transpile, "@atproto/api") ]_vars

\* What the code does on that object: the three registrations are made and
\* the call then throws a TypeError.
C21_RegistersThenThrows ==
    [][ setupResult = "none" /\ nuxt.nitro = <<>>
        => /\ setupResult' = Thrown("TypeError")
           /\ Len(componentsDirs') = 1 /\ componentsDirs'[1].global
           /\ Len(imports') = 1 /\ imports'[1].name = "useBlueskyComments"
           /\ Contains(nuxt'.build.transpile, "@atproto/api") ]_vars

-----------------------------------------------------------------------------
(* Vocabulary of the fetchComments properties *)

Started(r) == runs[r].pc # "idle"

Finished(r) == runs[r].pc = "done"

Succeeded(r) == Finished(r) /\ runs[r].outcome[1].kind = "thread"

Failed(r) == Finished(r) /\ runs[r].outcome[1].kind = "failed"

\* No run started after run r.
Latest(r) == \A q \in 1..MaxRuns : q > r => ~Started(q)

\* The step ends run r, and hands over how it ended.
Ends(r) == ~Finished(r) /\ Finished(r)'

EndsFailing(r) == Ends(r) /\ runs'[r].outcome[1].kind = "failed"

-----------------------------------------------------------------------------
(* C22 *)

\* C22: once a run has succeeded that no other run overlapped, and until
\* another run starts, loading is false, error is null, post is the root
\* post of the fetched thread, postUrl is uriToUrl(resolved URI, the root
\* author's handle) and comments is processReplies(thread.replies, the root
\* author's DID, 0, options).
C22_LoneSuccess ==
    \A r \in 1..MaxRuns :
       Succeeded(r) /\ ~runs[r].overlapped /\ Latest(r)
       => LET thread == runs[r].outcome[1]
          IN  /\ loading = FALSE
              /\ error = <<>>
              /\ post = <<thread.post>>
              /\ postUrl = uriToUrl(runs[r].uri, <<thread.post.author.handle>>)
              /\ comments = processReplies(thread.replies, thread.post.author.did,
                                           0, fetchOptions)

\* A refresh after a failed first run, for a web URL with a handle: the
\* handle was resolved, the thread arrived, and the run left a URL and a
\* list of comments, with the error of the first run cleared.
C22_Witness ==
    /\ Failed(1)
    /\ Succeeded(2)
    /\ ~runs[2].overlapped
    /\ runs[2].calls = <<"resolveHandle", "getPostThread">>
    /\ error = <<>>
    /\ postUrl # <<>>
    /\ Len(comments) > 1

-----------------------------------------------------------------------------
(* C23 *)

Unparseable(input) == ~startsWith(input, AtScheme) /\ WebUrlStarts(input) = {}

\* C23: every run that fails ends with error set to a message that begins
\* "Failed to load comments" and with loading false, whatever failed: the
\* parse of the input, the handle resolution, or the thread request in any
\* of its ways.  A run on an input that neither starts with at:// nor holds
\* a post URL ends that way without having called the API.
C23_FailuresAreCaught ==
    /\ [](\A r \in 1..MaxRuns :
            Finished(r) /\ Unparseable(locator)
            => Failed(r) /\ runs[r].calls = <<>>)
    /\ [][\A r \in 1..MaxRuns :
            EndsFailing(r)
            => /\ error' # <<>>
               /\ error'[1][1] = "Failed to load comments"
               /\ loading' = FALSE]_vars

\* A run on an input that is no locator has ended: no call was made, the
\* message is set and loading is false.
C23_Witness ==
    /\ locator = <<"x">>
    /\ Failed(1)
    /\ runs[1].calls = <<>>
    /\ error # <<>>
    /\ error[1][1] = "Failed to load comments"
    /\ ~loading

\* A run whose thread request was answered without a thread has ended.
C23_WitnessRequest ==
    /\ Failed(1)
    /\ runs[1].calls = <<"resolveHandle", "getPostThread">>
    /\ error # <<>>
    /\ ~loading

-----------------------------------------------------------------------------
(* C24 *)

\* C24 as stated: loading is true exactly when at least one run of
\* fetchComments is in flight.
C24_LoadingIffInFlight ==
    loading <=> \E r \in 1..MaxRuns : InFlight(r)

\* What holds: loading is true while the run that started last is in flight,
\* and false when no run is in flight.
C24_LoadingFollowsRuns ==
    /\ (\A r \in 1..MaxRuns : ~InFlight(r)) => ~loading
    /\ \A r \in 1..MaxRuns : InFlight(r) /\ ~runs[r].overlapped => loading

\* The first run has ended while the thread request of a refresh is still
\* waiting, and loading is false.
C24_IdleLookWhileWaiting ==
    /\ Finished(1)
    /\ runs[2].pc = "fetching"
    /\ ~loading

-----------------------------------------------------------------------------
(* C25 *)

AllFinished == \A r \in 1..MaxRuns : Started(r) => Finished(r)

LastStarted == CHOOSE r \in 1..MaxRuns : Started(r) /\ Latest(r)

\* C25 as stated: when runs overlapped and all have finished, comments,
\* post, stats, postUrl and error are what the run that started last
\* produced: its thread when it succeeded, its message and the refs as it
\* found them when it failed.
C25_LastStartedWins ==
    AllFinished /\ (\E r \in 1..MaxRuns : runs[r].overlapped)
    => LET last == runs[LastStarted]
           out == last.outcome[1]
       IN  IF out.kind = "thread"
           THEN /\ error = <<>>
                /\ post = <<out.post>>
                /\ stats = StatsOf(out.post)
                /\ postUrl = uriToUrl(last.uri, <<out.post.author.handle>>)
                /\ comments = processReplies(out.replies, out.post.author.did,
                                             0, fetchOptions)
           ELSE /\ error = <<out.message>>
                /\ Loaded = last.before

\* Two overlapping runs have both loaded a thread, and the refs hold the
\* thread of the run that started first.
C25_StaleThreadShown ==
    /\ Succeeded(1) /\ Succeeded(2)
    /\ runs[1].overlapped
    /\ runs[1].outcome # runs[2].outcome
    /\ post = <<runs[1].outcome[1].post>>

-----------------------------------------------------------------------------
(* C26 *)

\* C26: a run that fails writes none of post, stats, postUrl and comments:
\* no step but the arrival of a thread changes them, and when a run that no
\* other run overlapped ends failing they are what they were when it started.
C26_FailureKeepsLoaded ==
    /\ [][Loaded' # Loaded
          => \E r \in 1..MaxRuns : Ends(r) /\ runs'[r].outcome[1].kind = "thread"]_vars
    /\ [][\A r \in 1..MaxRuns :
            EndsFailing(r) /\ ~runs[r].overlapped => Loaded' = runs[r].before]_vars

\* A refresh that failed after a first run had loaded a thread: the post and
\* its comments are still in place beside the error.
C26_Witness ==
    /\ Succeeded(1)
    /\ Failed(2)
    /\ ~runs[2].overlapped
    /\ error # <<>>
    /\ post # <<>>
    /\ Len(comments) > 1
    /\ Loaded = runs[2].before

-----------------------------------------------------------------------------
(* C27 *)

\* The comments of a returned structure, nested ones included, each as often
\* as it occurs.
RECURSIVE CommentsOf(_)
CommentsOf(list) ==
    IF list = <<>> THEN <<>>
    ELSE <<Head(list)>> \o CommentsOf(Head(list).replies) \o CommentsOf(Tail(list))

\* Comment x is the one built from raw post n.
BuiltFrom(x, n) ==
    /\ x.id = n.post.cid
    /\ x.author.did = n.post.author.did
    /\ x.likeCount = n.post.likeCount
    /\ x.replyCount = n.post.replyCount
    /\ x.repostCount = n.post.repostCount

\* C27: the returned structure, nested lists included, holds one comment for
\* every post of the thread and nothing else: no post is missing, none is
\* there twice, and every comment is built from a post.
C27_Conservation ==
    Done
    => LET all == CommentsOf(result)
       IN  /\ \A i, j \in 1..Len(all) : all[i].id = all[j].id => i = j
           /\ { all[i].id : i \in 1..Len(all) } = PostCids(replies)
           /\ \A i \in 1..Len(all) :
                 \E n \in NodesOf(replies) :
                    isThreadViewPost(n) /\ BuiltFrom(all[i], n)

\* A post with a same-author reply that has a reply by someone else: one
\* comment was promoted, one stays nested, and all three posts are there.
C27_Witness ==
    /\ Done
    /\ Flattening
    /\ Len(CommentsOf(result)) = 3
    /\ Len(result) = 2
    /\ \E i \in 1..Len(result) : Len(result[i].replies) = 1
    /\ Cardinality(PostCids(replies)) = 3

-----------------------------------------------------------------------------
(* C28 *)

\* C28: with flattening on, no comment of the returned structure has among
\* its replies a comment by its own author.
C28_NoSameAuthorReply ==
    Done /\ Flattening
    => LET all == CommentsOf(result)
       IN  \A i \in 1..Len(all) :
              \A k \in 1..Len(all[i].replies) :
                 all[i].replies[k].author.did # all[i].author.did

\* A post with a reply by its author and a reply by someone else: the first
\* was promoted, the second is the one reply left under the comment.
C28_Witness ==
    /\ Done
    /\ Flattening
    /\ Len(replies) = 1
    /\ isThreadViewPost(replies[1])
    /\ Len(replies[1].replies) = 2
    /\ \E k \in 1..2 :
          /\ isThreadViewPost(replies[1].replies[k])
          /\ replies[1].replies[k].post.author.did = replies[1].post.author.did
    /\ Len(result) = 2
    /\ Len(result[1].replies) = 1

-----------------------------------------------------------------------------
(* C29 *)

\* C29 as stated: in the returned structure every reply of a comment has the
\* depth of the comment plus 1, in both option settings, promoted
\* continuations included.
C29_ReplyDepthIsNext ==
    Done
    => LET all == CommentsOf(result)
       IN  \A i \in 1..Len(all) :
              \A k \in 1..Len(all[i].replies) :
                 all[i].replies[k].depth = all[i].depth + 1

\* What holds: with flattening off every reply has the depth of its comment
\* plus 1; with it on a reply is at least that deep.
C29_ReplyDepthBelow ==
    Done
    => LET all == CommentsOf(result)
       IN  \A i \in 1..Len(all) :
              \A k \in 1..Len(all[i].replies) :
                 IF Flattening
                 THEN all[i].replies[k].depth >= all[i].depth + 1
                 ELSE all[i].replies[k].depth = all[i].depth + 1

\* A promoted continuation at the depth of the call whose reply kept the
\* depth it was built with, two levels down.
C29_ReplyTwoLevelsDown ==
    /\ Done
    /\ \E i \in 1..Len(result) :
          /\ Len(result[i].replies) > 0
          /\ result[i].depth = depth
          /\ result[i].replies[1].depth = depth + 2

-----------------------------------------------------------------------------
(* C30 *)

\* The calls of getAtpAgent that have returned an agent.
Resolved(c) ==
    /\ agentCalls[c].pc = "done"
    /\ agentCalls[c].result # Thrown("import failed")

\* C30 as stated: every call of getAtpAgent resolves to the same agent, at
\* most one AtpAgent is ever constructed, and the dynamic import runs at
\* most once.
C30_OneSharedAgent ==
    /\ \A c, e \in 1..MaxAgentCalls :
          Resolved(c) /\ Resolved(e) => agentCalls[c].result = agentCalls[e].result
    /\ agentsConstructed <= 1
    /\ importsStarted <= 1

\* What holds: a call made after an earlier call has returned an agent
\* gets the agent that is current then, without an import or a construction.
C30_SharedOnceSet ==
    [][\A c \in 1..MaxAgentCalls :
         agentCalls[c].pc = "idle" /\ agentCalls'[c].pc # "idle" /\ agentInstance # <<>>
         => /\ agentCalls'[c] = [pc |-> "done", result |-> agentInstance]
            /\ UNCHANGED <<agentsConstructed, importsStarted, agentInstance>>]_vars

\* Two calls made before the import of the first fulfilled have both
\* returned, each with an agent of its own.
C30_TwoAgents ==
    /\ Resolved(1) /\ Resolved(2)
    /\ agentCalls[1].result # agentCalls[2].result
    /\ agentsConstructed = 2
    /\ importsStarted = 2

====
